---------------------------- MODULE Spec2Model ----------------------------
(***************************************************************************)
(* A model of the ftldat archive library: the Package data model           *)
(* (src/src/shared/package.rs), its entries (src/src/shared/entry.rs), the *)
(* DAT codec (src/src/dat/writer.rs, src/src/dat/reader.rs) and the PKG    *)
(* codec (src/src/pkg/writer.rs, src/src/pkg/reader.rs, shared.rs).        *)
(*                                                                         *)
(* Strings and contents are sequences of bytes (0..255).  Positions are    *)
(* zero-based as in the Rust code; element i of a Vec is v[i + 1] here.    *)
(***************************************************************************)
EXTENDS Integers, Sequences, FiniteSets, TLC

VARIABLES
    entries,                    \* Package.entries: Vec<PackageEntry>
    inner_path_to_entry_index,  \* Package.inner_path_to_entry_index: BTreeMap<String, usize>
    last,                       \* the last call made on the Package, with the state it was made in
    output,                     \* the byte stream the Package was written to (NoOutput before)
    loaded,                     \* what reading that stream back returned (NotLoaded before)
    damage,                     \* what was done to the stream between writing and reading
    fs,                         \* the files on disk: their bytes, by path
    pc,                         \* where the running call to_path, into_path or extract is
    strong_count                \* Rc::strong_count of the map of the file that was read

vars == <<entries, inner_path_to_entry_index, last, output, loaded, damage,
          fs, pc, strong_count>>

\* what the calls on files and the count of the map's references work on
aside == <<fs, pc, strong_count>>

---------------------------------------------------------------------------
(* Bounds and input sets *)

MaxEntries == 3

\* "a", "b/c" and the two-byte UTF-8 string U+00E9
InnerPaths == { <<97>>, <<98, 47, 99>>, <<195, 169>> }

Contents == { <<>>, <<120, 121>> }

\* the bytes a damaged file has in place of the written ones, and the longest
\* run of them
DamageBytes == { 1, 2 }
MaxRun == 2

\* the longest path given to calculate_path_hash, in chars, and the chars:
\* "a", "A", "b", "/", U+00E9 and U+00C9
MaxPathChars == 3
PathChars == { 97, 65, 98, 47, 233, 201 }

\* "test1.txt" and "audio/music/bp_MUS_CivilBATTLE.ogg"
Test1Txt == <<116, 101, 115, 116, 49, 46, 116, 120, 116>>
CivilBattleOgg ==
    <<97, 117, 100, 105, 111, 47, 109, 117, 115, 105, 99, 47, 98, 112, 95, 77, 85, 83,
      95, 67, 105, 118, 105, 108, 66, 65, 84, 84, 76, 69, 46, 111, 103, 103>>

\* the entry of the writers' tests: "test" holding "test123"
TestPath == <<116, 101, 115, 116>>
TestContent == <<116, 101, 115, 116, 49, 50, 51>>

---------------------------------------------------------------------------
(* Vec<T> and BTreeMap<String, usize> *)

\* Option<T>: None, and Some(x)
None == <<>>
Some(x) == <<x>>

\* Vec::remove(index): the caller has checked index < len (it panics otherwise)
VecRemove(v, index) ==
    [j \in 1..(Len(v) - 1) |-> IF j <= index THEN v[j] ELSE v[j + 1]]

\* Vec::insert(index, element): the caller has checked index <= len
VecInsert(v, index, element) ==
    SubSeq(v, 1, index) \o <<element>> \o SubSeq(v, index + 1, Len(v))

\* BTreeMap::new()
EmptyMap == [k \in {} |-> 0]

\* BTreeMap::insert(key, value)
MapInsert(m, key, value) ==
    [k \in (DOMAIN m) \cup {key} |-> IF k = key THEN value ELSE m[k]]

---------------------------------------------------------------------------
(* PackageEntry and DataSource *)

\* PackageEntry::from_byte_array
from_byte_array(inner_path, bytes) ==
    [inner_path |-> inner_path,
     source |-> [kind |-> "InMemoryByteArray", bytes |-> bytes, offset |-> 0, length |-> 0]]

\* PackageEntry::from_memory_mapped_file; the map itself is passed to content
from_memory_mapped_file(inner_path, offset, length) ==
    [inner_path |-> inner_path,
     source |-> [kind |-> "MemoryMappedFile", bytes |-> <<>>, offset |-> offset, length |-> length]]

\* PackageEntry::content, for the two sources the model builds; mmap is the
\* mapped file of a MemoryMappedFile source.  The slice mmap[offset..offset+length]
\* panics when it reaches past the end of the map.
content(entry, mmap) ==
    IF entry.source.kind = "InMemoryByteArray"
    THEN [result |-> "Ok", bytes |-> entry.source.bytes]
    ELSE IF entry.source.offset + entry.source.length > Len(mmap)
         THEN [result |-> "panic", bytes |-> <<>>]
         ELSE [result |-> "Ok",
               bytes |-> SubSeq(mmap, entry.source.offset + 1,
                                entry.source.offset + entry.source.length)]

---------------------------------------------------------------------------
(* Package *)

\* Package::new
new == [entries |-> <<>>, index |-> EmptyMap]

\* Package::append_new_entry
append_new_entry(pkg, entry) ==
    LET index == Len(pkg.entries)
    IN  [entries |-> Append(pkg.entries, entry),
         index |-> MapInsert(pkg.index, entry.inner_path, index)]

\* Package::add_entry without its test for a taken path: a duplicate is
\* appended like any other entry
add_entry_unchecked(pkg, entry) ==
    [result |-> "Ok"] @@ append_new_entry(pkg, entry)

\* Package::add_entry
add_entry(pkg, entry) ==
    IF entry.inner_path \in DOMAIN pkg.index
    THEN [result |-> "Err", entries |-> pkg.entries, index |-> pkg.index]
    ELSE [result |-> "Ok"] @@ append_new_entry(pkg, entry)

\* Package::put_entry.  Vec::remove panics when index >= len, before it
\* changes the vector.
put_entry(pkg, entry) ==
    IF entry.inner_path \in DOMAIN pkg.index
    THEN LET index == pkg.index[entry.inner_path]
         IN  IF index >= Len(pkg.entries)
             THEN [result |-> "panic", entries |-> pkg.entries, index |-> pkg.index]
             ELSE [result |-> "Ok",
                   entries |-> VecInsert(VecRemove(pkg.entries, index), index, entry),
                   index |-> pkg.index]
    ELSE [result |-> "Ok"] @@ append_new_entry(pkg, entry)

\* Package::remove_entry: the entry at the indexed position is removed from
\* the vector; the index map is not touched.
remove_entry(pkg, inner_path) ==
    IF inner_path \in DOMAIN pkg.index
    THEN LET index == pkg.index[inner_path]
         IN  IF index >= Len(pkg.entries)
             THEN [result |-> "panic", entries |-> pkg.entries, index |-> pkg.index]
             ELSE [result |-> "true",
                   entries |-> VecRemove(pkg.entries, index),
                   index |-> pkg.index]
    ELSE [result |-> "false", entries |-> pkg.entries, index |-> pkg.index]

\* Package::clear without inner_path_to_entry_index.clear()
clear_entries_only(pkg) ==
    [result |-> "Ok", entries |-> <<>>, index |-> pkg.index]

\* Package::clear
clear(pkg) ==
    [result |-> "Ok", entries |-> <<>>, index |-> EmptyMap]

\* Package::entry_exists
entry_exists(pkg, inner_path) == inner_path \in DOMAIN pkg.index

\* Package::content_by_path: entries.get(index) is None past the end
content_by_path(pkg, inner_path, mmap) ==
    IF inner_path \in DOMAIN pkg.index
    THEN LET index == pkg.index[inner_path]
         IN  IF index < Len(pkg.entries)
             THEN Some(content(pkg.entries[index + 1], mmap).bytes)
             ELSE None
    ELSE None

\* Package::inner_paths
inner_paths(pkg) == [i \in 1..Len(pkg.entries) |-> pkg.entries[i].inner_path]

\* entry_count that counts the paths of the index, not the entries
entry_count_of_index(pkg) == Cardinality(DOMAIN pkg.index)

\* Package::entry_count
entry_count(pkg) == Len(pkg.entries)

---------------------------------------------------------------------------
(* Little-endian integers and the seekable output (Write + Seek) *)

\* `as u32`: n mod 2^32, by 16-bit halves
U32(n) == (n % 65536) + 65536 * ((n \div 65536) % 65536)

\* WriteBytesExt::write_u32::<LittleEndian>
u32_le(n) ==
    << n % 256, (n \div 256) % 256, (n \div 65536) % 256, (n \div 16777216) % 256 >>

\* ReadBytesExt::read_u32::<LittleEndian> of the four bytes at position pos
read_u32_le(bytes, pos) ==
    bytes[pos + 1] + 256 * bytes[pos + 2] + 65536 * bytes[pos + 3]
        + 16777216 * bytes[pos + 4]

\* an empty output positioned at its start
NewOutput == [buf |-> <<>>, pos |-> 0]

\* Seek::seek(SeekFrom::Start(pos))
Seek(out, pos) == [buf |-> out.buf, pos |-> pos]

\* Write::write_all at the current position: bytes already there are
\* overwritten, a gap left by a seek past the end reads as zeros
WriteAll(out, bytes) ==
    IF bytes = <<>>
    THEN out
    ELSE LET end == out.pos + Len(bytes)
             len == IF end > Len(out.buf) THEN end ELSE Len(out.buf)
         IN  [buf |-> [i \in 1..len |->
                          IF i > out.pos /\ i <= end THEN bytes[i - out.pos]
                          ELSE IF i <= Len(out.buf) THEN out.buf[i]
                          ELSE 0],
              pos |-> end]

---------------------------------------------------------------------------
(* DAT writer *)

\* dat::writer::write_entry; content is entry.content()?  Its four writes
\* follow one another, so they are one write of the four pieces in a row.
write_entry(entry, bytes, out) ==
    LET inner_path == entry.inner_path
    IN  WriteAll(out, u32_le(U32(Len(bytes))) \o u32_le(U32(Len(inner_path)))
                          \o inner_path \o bytes)

\* the loop `for entry in package.iter()` of write_package_to_output, from
\* entry number i on: the stream position is pushed to entry_offsets, then the
\* entry is written; a failed write_entry panics (.expect)
RECURSIVE WriteEntries(_, _, _, _, _)
WriteEntries(ents, i, mmap, out, entry_offsets) ==
    IF i > Len(ents)
    THEN [result |-> "Ok", out |-> out, entry_offsets |-> entry_offsets]
    ELSE LET c == content(ents[i], mmap)
         IN  IF c.result # "Ok"
             THEN [result |-> "panic", out |-> out, entry_offsets |-> entry_offsets]
             ELSE WriteEntries(ents, i + 1, mmap,
                               write_entry(ents[i], c.bytes, out),
                               Append(entry_offsets, U32(out.pos)))

\* the loop `for offset in entry_offsets`
RECURSIVE WriteOffsets(_, _, _)
WriteOffsets(entry_offsets, i, out) ==
    IF i > Len(entry_offsets)
    THEN out
    ELSE WriteOffsets(entry_offsets, i + 1, WriteAll(out, u32_le(entry_offsets[i])))

\* dat::writer::write_package_to_output without the final seek back that
\* fills in the offset table
write_package_to_output_no_backfill(pkg, mmap) ==
    LET index_size == entry_count(pkg)
        o1 == WriteAll(NewOutput, u32_le(U32(index_size)))
        o2 == Seek(o1, 4 + 4 * index_size)
        w  == WriteEntries(pkg.entries, 1, mmap, o2, <<>>)
    IN  [result |-> w.result, bytes |-> w.out.buf]

\* dat::writer::write_package_to_output
write_package_to_output(pkg, mmap) ==
    LET index_size == entry_count(pkg)
        o1 == WriteAll(NewOutput, u32_le(U32(index_size)))
        o2 == Seek(o1, 4 + 4 * index_size)
        w  == WriteEntries(pkg.entries, 1, mmap, o2, <<>>)
        o3 == Seek(w.out, 4)
    IN  IF w.result # "Ok"
        THEN [result |-> "panic", bytes |-> w.out.buf]
        ELSE [result |-> "Ok", bytes |-> WriteOffsets(w.entry_offsets, 1, o3).buf]

---------------------------------------------------------------------------
(* DAT reader *)

\* dat::constants::INDEX_SIZE: the size of the entry_count field
DAT_INDEX_SIZE == 4

IsContinuation(bytes, i) == i <= Len(bytes) /\ bytes[i] \in 128..191

\* String::from_utf8's validation, from byte number i on
RECURSIVE Utf8ValidFrom(_, _)
Utf8ValidFrom(bytes, i) ==
    IF i > Len(bytes) THEN TRUE
    ELSE LET c == bytes[i]
         IN  IF c < 128 THEN Utf8ValidFrom(bytes, i + 1)
             ELSE IF c \in 194..223
             THEN IsContinuation(bytes, i + 1) /\ Utf8ValidFrom(bytes, i + 2)
             ELSE IF c \in 224..239
             THEN /\ IsContinuation(bytes, i + 1)
                  /\ (c = 224 => bytes[i + 1] >= 160)
                  /\ (c = 237 => bytes[i + 1] <= 159)
                  /\ IsContinuation(bytes, i + 2)
                  /\ Utf8ValidFrom(bytes, i + 3)
             ELSE IF c \in 240..244
             THEN /\ IsContinuation(bytes, i + 1)
                  /\ (c = 240 => bytes[i + 1] >= 144)
                  /\ (c = 244 => bytes[i + 1] <= 143)
                  /\ IsContinuation(bytes, i + 2)
                  /\ IsContinuation(bytes, i + 3)
                  /\ Utf8ValidFrom(bytes, i + 4)
             ELSE FALSE

\* String::from_utf8(buffer)
from_utf8(buffer) ==
    IF Utf8ValidFrom(buffer, 1)
    THEN [result |-> "Ok", string |-> buffer]
    ELSE [result |-> "Err", string |-> <<>>]

NoBuilder(result) ==
    [result |-> result, inner_path |-> <<>>, data_offset |-> 0, data_size |-> 0]

\* dat::reader::EntryBuilder::read_entry; a slice that reaches past the end
\* of the map panics
read_entry(mmap, entry_offset) ==
    LET entry_variable_area_offset == entry_offset + 8
    IN  IF entry_variable_area_offset > Len(mmap)
        THEN NoBuilder("panic")
        ELSE LET entry_content_length == read_u32_le(mmap, entry_offset)
                 inner_path_length == read_u32_le(mmap, entry_offset + 4)
                 entry_end == entry_variable_area_offset + inner_path_length
                                  + entry_content_length
             IN  IF entry_end > Len(mmap)
                 THEN NoBuilder("panic")
                 ELSE LET inner_path ==
                              from_utf8(SubSeq(mmap, entry_variable_area_offset + 1,
                                               entry_variable_area_offset + inner_path_length))
                      IN  IF inner_path.result # "Ok"
                          THEN NoBuilder("Err")
                          ELSE [result |-> "Ok",
                                inner_path |-> inner_path.string,
                                data_offset |-> entry_variable_area_offset + inner_path_length,
                                data_size |-> entry_content_length]

\* dat::reader::EntryBuilder::build
build(builder) ==
    from_memory_mapped_file(builder.inner_path, builder.data_offset, builder.data_size)

\* the loop `for entry_builder in entry_builders` of read_from_input, from
\* builder number i on: the first add_entry that fails ends the read (`?`)
RECURSIVE AddBuilt(_, _, _)
AddBuilt(builders, i, pkg) ==
    IF i > Len(builders)
    THEN [result |-> "Ok", entries |-> pkg.entries, index |-> pkg.index]
    ELSE LET r == add_entry(pkg, build(builders[i]))
         IN  IF r.result # "Ok"
             THEN [result |-> "Err", entries |-> r.entries, index |-> r.index]
             ELSE AddBuilt(builders, i + 1, [entries |-> r.entries, index |-> r.index])

Failed(result) == [result |-> result, entries |-> <<>>, index |-> EmptyMap]

\* the entries of a DAT file read one after the other from position pos on,
\* n of them, without the offset table
RECURSIVE ReadInFileOrder(_, _, _)
ReadInFileOrder(mmap, pos, n) ==
    IF n = 0 THEN <<>>
    ELSE LET builder == read_entry(mmap, pos)
         IN  IF builder.result # "Ok" THEN <<builder>>
             ELSE <<builder>> \o ReadInFileOrder(mmap, builder.data_offset + builder.data_size,
                                                 n - 1)

\* read_from_input that skips the offsets and simply reads the entries in
\* the order of the file
read_from_input_in_file_order(mmap) ==
    IF Len(mmap) < 4 \/ 4 + read_u32_le(mmap, 0) * 4 > Len(mmap)
    THEN Failed("panic")
    ELSE LET entry_builders ==
                 ReadInFileOrder(mmap, 4 + read_u32_le(mmap, 0) * 4, read_u32_le(mmap, 0))
         IN  IF \E i \in 1..Len(entry_builders) : entry_builders[i].result # "Ok"
             THEN Failed("panic")
             ELSE LET r == AddBuilt(entry_builders, 1, new)
                  IN  IF r.result = "Ok" THEN r ELSE Failed("Err")

\* dat::reader::read_from_input on a file holding the bytes mmap (at least
\* DAT_INDEX_SIZE of them).  Every entry is decoded before any is added, and
\* a read_entry that fails panics (.expect).  On "Err" and "panic" no Package
\* is returned.
read_from_input(mmap) ==
    IF Len(mmap) < DAT_INDEX_SIZE
    THEN Failed("panic")
    ELSE LET entry_count_ == read_u32_le(mmap, 0)
             entry_area_offset == DAT_INDEX_SIZE + entry_count_ * 4
         IN  IF entry_area_offset > Len(mmap)
             THEN Failed("panic")
             ELSE LET entry_offsets ==
                          [i \in 1..entry_count_ |->
                              read_u32_le(mmap, DAT_INDEX_SIZE + 4 * (i - 1))]
                      entry_builders ==
                          [i \in 1..entry_count_ |-> read_entry(mmap, entry_offsets[i])]
                  IN  IF \E i \in 1..entry_count_ : entry_builders[i].result # "Ok"
                      THEN Failed("panic")
                      ELSE LET r == AddBuilt(entry_builders, 1, new)
                           IN  IF r.result = "Ok" THEN r ELSE Failed("Err")

---------------------------------------------------------------------------
(* Strings as sequences of chars; 32-bit words as four big-endian bytes *)

\* str::chars: the code points of a (valid) UTF-8 string
RECURSIVE chars(_)
chars(s) ==
    IF s = <<>> THEN <<>>
    ELSE LET c == s[1]
         IN  IF c < 128 THEN <<c>> \o chars(SubSeq(s, 2, Len(s)))
             ELSE IF c < 224
             THEN <<(c - 192) * 64 + (s[2] - 128)>> \o chars(SubSeq(s, 3, Len(s)))
             ELSE IF c < 240
             THEN <<(c - 224) * 4096 + (s[2] - 128) * 64 + (s[3] - 128)>>
                      \o chars(SubSeq(s, 4, Len(s)))
             ELSE <<(c - 240) * 262144 + (s[2] - 128) * 4096 + (s[3] - 128) * 64
                        + (s[4] - 128)>> \o chars(SubSeq(s, 5, Len(s)))

\* char::encode_utf8: the bytes String::push appends for one char
encode_utf8(c) ==
    IF c < 128 THEN <<c>>
    ELSE IF c < 2048 THEN <<192 + (c \div 64), 128 + (c % 64)>>
    ELSE IF c < 65536
    THEN <<224 + (c \div 4096), 128 + ((c \div 64) % 64), 128 + (c % 64)>>
    ELSE <<240 + (c \div 262144), 128 + ((c \div 4096) % 64),
           128 + ((c \div 64) % 64), 128 + (c % 64)>>

\* the String made of the chars cs
RECURSIVE from_chars(_)
from_chars(cs) ==
    IF cs = <<>> THEN <<>> ELSE encode_utf8(cs[1]) \o from_chars(Tail(cs))

\* the lower case of one char: A-Z, and U+00C0..U+00DE without U+00D7, have
\* their lower case 32 further on; no other char below U+0100 changes, and
\* chars from U+0100 on do not occur in the paths of this model
lowercase_char(c) ==
    IF c \in 65..90 \/ (c \in 192..222 /\ c # 215) THEN c + 32 ELSE c

\* str::to_lowercase
to_lowercase(s) ==
    LET cs == chars(s)
    IN  from_chars([i \in 1..Len(cs) |-> lowercase_char(cs[i])])

\* a ^ b on naturals
RECURSIVE BitXor(_, _)
BitXor(a, b) ==
    IF a = 0 THEN b
    ELSE IF b = 0 THEN a
    ELSE ((a + b) % 2) + 2 * BitXor(a \div 2, b \div 2)

\* WriteBytesExt::write_u32::<BigEndian>; a u32 that is rotated or xor-ed is
\* kept as these four bytes
u32_be(n) ==
    << (n \div 16777216) % 256, (n \div 65536) % 256, (n \div 256) % 256, n % 256 >>

\* WriteBytesExt::write_u16::<BigEndian>
u16_be(n) == << (n \div 256) % 256, n % 256 >>

\* WriteBytesExt::write_u24::<BigEndian>
u24_be(n) == << (n \div 65536) % 256, (n \div 256) % 256, n % 256 >>

\* u32::rotate_right(n) of the word h, for n below 8
rotate_right(h, n) ==
    LET low == 2 ^ n
        high == 2 ^ (8 - n)
    IN  [i \in 1..4 |->
            (h[i] \div low) + (h[IF i = 1 THEN 4 ELSE i - 1] % low) * high]

\* hash ^ byte, where byte is a char as u32 (below 2^24)
xor_u32(h, byte) ==
    << h[1], BitXor(h[2], byte \div 65536), BitXor(h[3], (byte \div 256) % 256),
       BitXor(h[4], byte % 256) >>

---------------------------------------------------------------------------
(* PKG path hash *)

\* the loop of calculate_path_hash over the chars cs, from char number i on
RECURSIVE HashChars(_, _, _)
HashChars(cs, i, hash) ==
    IF i > Len(cs) THEN hash
    ELSE HashChars(cs, i + 1, xor_u32(rotate_right(hash, 5), cs[i]))

\* the same loop over the path as given, without to_lowercase
calculate_path_hash_as_given(inner_path) == HashChars(chars(inner_path), 1, u32_be(0))

\* pkg::shared::calculate_path_hash
calculate_path_hash(inner_path) ==
    HashChars(chars(to_lowercase(inner_path)), 1, u32_be(0))

---------------------------------------------------------------------------
(* PKG writer *)

PKG_SIGNATURE == <<80, 75, 71, 10>>
INDEX_SIZE == 16
ENTRY_SIZE == 20
PKG_DEFLATED == 1

\* an EntryHeader for entry with the given options and unpacked size; a
\* content that cannot be read panics (.expect)
NewEntryHeader(entry, c, entry_options, unpacked_data_size) ==
    [result |-> IF c.result = "Ok" THEN "Ok" ELSE "panic",
     inner_path_hash |-> calculate_path_hash(entry.inner_path),
     entry_options |-> entry_options,
     inner_path_offset |-> 0,
     data_offset |-> 0,
     data_size |-> U32(Len(c.bytes)),
     unpacked_data_size |-> unpacked_data_size]

\* the header of an entry marked as deflated, with no unpacked size
EntryHeader_from_deflated(entry, mmap) ==
    NewEntryHeader(entry, content(entry, mmap), PKG_DEFLATED, 0)

\* From<&PackageEntry> for EntryHeader
EntryHeader_from(entry, mmap) ==
    LET c == content(entry, mmap)
    IN  NewEntryHeader(entry, c, 0, U32(Len(c.bytes)))

\* EntryHeader::write_entry_header: the 20 bytes it writes, one field after
\* the other
write_entry_header(header) ==
    header.inner_path_hash \o <<header.entry_options>>
        \o u24_be(header.inner_path_offset) \o u32_be(header.data_offset)
        \o u32_be(header.data_size) \o u32_be(header.unpacked_data_size)

\* the first loop `for entry in package.iter()` of the PKG
\* write_package_to_output, from entry number i on
RECURSIVE CollectHeaders(_, _, _, _, _, _)
CollectHeaders(ents, i, mmap, data_offset, entry_headers, path_region_buffer) ==
    IF i > Len(ents)
    THEN [result |-> "Ok", entry_headers |-> entry_headers,
          path_region_buffer |-> path_region_buffer]
    ELSE LET header == EntryHeader_from(ents[i], mmap)
             c == content(ents[i], mmap)
         IN  IF header.result # "Ok"
             THEN [result |-> "panic", entry_headers |-> entry_headers,
                   path_region_buffer |-> path_region_buffer]
             ELSE CollectHeaders(ents, i + 1, mmap,
                      U32(data_offset + U32(Len(c.bytes))),
                      Append(entry_headers,
                             [header EXCEPT
                                 !.inner_path_offset = U32(Len(path_region_buffer)),
                                 !.data_offset = data_offset]),
                      path_region_buffer \o ents[i].inner_path \o <<0>>)

\* the loop `for mut entry_header in entry_headers`, from header number i on:
\* the bytes it writes
RECURSIVE WriteHeaders(_, _, _)
WriteHeaders(entry_headers, i, data_region_offset) ==
    IF i > Len(entry_headers)
    THEN <<>>
    ELSE write_entry_header(
             [entry_headers[i] EXCEPT
                 !.data_offset = U32(@ + U32(data_region_offset))])
           \o WriteHeaders(entry_headers, i + 1, data_region_offset)

\* the second loop `for entry in package.iter()`, from entry number i on: the
\* bytes it writes
RECURSIVE WriteContents(_, _, _)
WriteContents(ents, i, mmap) ==
    IF i > Len(ents)
    THEN <<>>
    ELSE content(ents[i], mmap).bytes \o WriteContents(ents, i + 1, mmap)

\* the writes and the seek of pkg::writer::write_package_to_output in their
\* order, with the headers rebased by headers_base and the data region
\* placed at data_region_offset
WritePkg(pkg, mmap, headers_base, data_region_offset, collected) ==
    LET o1 == WriteAll(NewOutput,
                       PKG_SIGNATURE \o u16_be(INDEX_SIZE) \o u16_be(ENTRY_SIZE)
                           \o u32_be(U32(entry_count(pkg)))
                           \o u32_be(U32(Len(collected.path_region_buffer))))
        o2 == WriteAll(o1, WriteHeaders(collected.entry_headers, 1, headers_base))
        o3 == WriteAll(o2, collected.path_region_buffer)
        o4 == Seek(o3, data_region_offset)
    IN  WriteAll(o4, WriteContents(pkg.entries, 1, mmap)).buf

\* pkg::writer::write_package_to_output without `entry_header.data_offset +=
\* data_region_offset`
pkg_write_package_to_output_unrebased(pkg, mmap) ==
    LET collected == CollectHeaders(pkg.entries, 1, mmap, 0, <<>>, <<>>)
        path_len == Len(collected.path_region_buffer)
        data_region_offset ==
            INDEX_SIZE + ENTRY_SIZE * entry_count(pkg) + path_len + (4 - (path_len % 4))
    IN  IF collected.result # "Ok"
        THEN [result |-> "panic", bytes |-> <<>>]
        ELSE [result |-> "Ok",
              bytes |-> WritePkg(pkg, mmap, 0, data_region_offset, collected)]

\* pkg::writer::write_package_to_output
pkg_write_package_to_output(pkg, mmap) ==
    LET collected == CollectHeaders(pkg.entries, 1, mmap, 0, <<>>, <<>>)
        path_len == Len(collected.path_region_buffer)
        data_region_offset ==
            INDEX_SIZE + ENTRY_SIZE * entry_count(pkg) + path_len + (4 - (path_len % 4))
    IN  IF collected.result # "Ok"
        THEN [result |-> "panic", bytes |-> <<>>]
        ELSE [result |-> "Ok",
              bytes |-> WritePkg(pkg, mmap, data_region_offset, data_region_offset,
                                 collected)]

---------------------------------------------------------------------------
(* PKG reader *)

\* a & b on naturals
RECURSIVE BitAnd(_, _)
BitAnd(a, b) ==
    IF a = 0 \/ b = 0 THEN 0
    ELSE ((a % 2) * (b % 2)) + 2 * BitAnd(a \div 2, b \div 2)

\* ReadBytesExt::read_u16::<BigEndian> of the two bytes at position pos
read_u16_be(bytes, pos) == 256 * bytes[pos + 1] + bytes[pos + 2]

\* ReadBytesExt::read_u24::<BigEndian>
read_u24_be(bytes, pos) == 65536 * bytes[pos + 1] + 256 * bytes[pos + 2] + bytes[pos + 3]

\* ReadBytesExt::read_u32::<BigEndian>
read_u32_be(bytes, pos) ==
    16777216 * bytes[pos + 1] + 65536 * bytes[pos + 2] + 256 * bytes[pos + 3]
        + bytes[pos + 4]

\* the errors of pkg::error, and io::Error
NoError == [kind |-> "None", expected |-> <<>>, actual |-> <<>>, inner_path |-> <<>>]
SignatureMismatchError(expected, actual) ==
    [kind |-> "SignatureMismatchError", expected |-> <<expected>>, actual |-> <<actual>>,
     inner_path |-> <<>>]
HeaderSizeMismatchError(expected, actual) ==
    [kind |-> "HeaderSizeMismatchError", expected |-> <<expected>>, actual |-> <<actual>>,
     inner_path |-> <<>>]
EntriesHeaderSizeMismatchError(expected, actual) ==
    [kind |-> "EntriesHeaderSizeMismatchError", expected |-> <<expected>>,
     actual |-> <<actual>>, inner_path |-> <<>>]
UnsupportedDeflatedEntryError ==
    [kind |-> "UnsupportedDeflatedEntryError", expected |-> <<>>, actual |-> <<>>,
     inner_path |-> <<>>]
PathHashMismatchError(inner_path, expected, actual) ==
    [kind |-> "PathHashMismatchError", expected |-> expected, actual |-> actual,
     inner_path |-> inner_path]
IoError == [kind |-> "io::Error", expected |-> <<>>, actual |-> <<>>, inner_path |-> <<>>]
InnerPathAlreadyExistsError(inner_path) ==
    [kind |-> "InnerPathAlreadyExistsError", expected |-> <<>>, actual |-> <<>>,
     inner_path |-> inner_path]

\* the EntryBuilder made of the 20 bytes at position pos; the hash is kept as
\* its four bytes, `_unpacked_size` is read and dropped
NewEntryBuilder(mmap, pos, is_data_deflated) ==
    [result |-> IF is_data_deflated THEN "Err" ELSE "Ok",
     inner_path_hash |-> SubSeq(mmap, pos + 1, pos + 4),
     inner_path_offset |-> read_u24_be(mmap, pos + 5),
     data_offset |-> read_u32_be(mmap, pos + 8),
     data_size |-> read_u32_be(mmap, pos + 12)]

\* read_entry_header that takes no header for a deflated one
read_entry_header_any_flags(mmap, pos) == NewEntryBuilder(mmap, pos, FALSE)

\* pkg::reader::EntryBuilder::read_entry_header
read_entry_header(mmap, pos) ==
    LET entry_options == mmap[pos + 5]
        is_data_deflated == BitAnd(entry_options, PKG_DEFLATED) # 0
    IN  NewEntryBuilder(mmap, pos, is_data_deflated)

\* pkg::reader::read_null_terminated_string from position pos of the path
\* region: every byte read becomes one char (`read_byte as char`); the end of
\* the region before a zero byte is an io::Error
RECURSIVE read_null_terminated_string(_, _, _)
read_null_terminated_string(input, pos, result) ==
    IF pos >= Len(input)
    THEN [result |-> "Err", string |-> <<>>]
    ELSE IF input[pos + 1] = 0
    THEN [result |-> "Ok", string |-> result]
    ELSE read_null_terminated_string(input, pos + 1,
                                     result \o encode_utf8(input[pos + 1]))

\* read_inner_path that does not compare the hashes
read_inner_path_unverified(builder, path_region_input) ==
    LET s == read_null_terminated_string(path_region_input, builder.inner_path_offset,
                                         <<>>)
    IN  IF s.result # "Ok"
        THEN [result |-> "Err", error |-> IoError, inner_path |-> <<>>]
        ELSE [result |-> "Ok", error |-> NoError, inner_path |-> s.string]

\* pkg::reader::EntryBuilder::read_inner_path
read_inner_path(builder, path_region_input) ==
    LET s == read_null_terminated_string(path_region_input, builder.inner_path_offset,
                                         <<>>)
        calculated_hash == calculate_path_hash(s.string)
    IN  IF s.result # "Ok"
        THEN [result |-> "Err", error |-> IoError, inner_path |-> <<>>]
        ELSE IF calculated_hash # builder.inner_path_hash
        THEN [result |-> "Err",
              error |-> PathHashMismatchError(s.string, builder.inner_path_hash,
                                              calculated_hash),
              inner_path |-> s.string]
        ELSE [result |-> "Ok", error |-> NoError, inner_path |-> s.string]

PkgFailed(result, error) ==
    [result |-> result, entries |-> <<>>, index |-> EmptyMap, error |-> error]

\* the loop `for mut entry_builder in entry_builders` of
\* read_package_from_file, from builder number i on
RECURSIVE AddRead(_, _, _, _)
AddRead(builders, i, path_region, pkg) ==
    IF i > Len(builders)
    THEN [result |-> "Ok", entries |-> pkg.entries, index |-> pkg.index,
          error |-> NoError]
    ELSE LET p == read_inner_path(builders[i], path_region)
             r == add_entry(pkg,
                            from_memory_mapped_file(p.inner_path,
                                                    builders[i].data_offset,
                                                    builders[i].data_size))
         IN  IF p.result # "Ok"
             THEN PkgFailed("Err", p.error)
             ELSE IF r.result # "Ok"
             THEN PkgFailed("Err", InnerPathAlreadyExistsError(p.inner_path))
             ELSE AddRead(builders, i + 1, path_region,
                          [entries |-> r.entries, index |-> r.index])

\* the first position at which the file differs from PKG_SIGNATURE, 0 if none
SignatureMismatchAt(mmap) ==
    IF \E i \in 1..4 : mmap[i] # PKG_SIGNATURE[i]
    THEN CHOOSE i \in 1..4 :
             /\ mmap[i] # PKG_SIGNATURE[i]
             /\ \A j \in 1..(i - 1) : mmap[j] = PKG_SIGNATURE[j]
    ELSE 0

\* what read_package_from_file does once the header is accepted
ReadPkgBody(mmap) ==
    LET entry_count_ == read_u32_be(mmap, 8)
        path_region_size == read_u32_be(mmap, 12)
        path_region_offset == INDEX_SIZE + ENTRY_SIZE * entry_count_
    IN  IF path_region_offset > Len(mmap)
        THEN PkgFailed("panic", NoError)
        ELSE LET entry_builders ==
                     [i \in 1..entry_count_ |->
                         read_entry_header(mmap, INDEX_SIZE + ENTRY_SIZE * (i - 1))]
             IN  IF \E i \in 1..entry_count_ : entry_builders[i].result # "Ok"
                 THEN PkgFailed("Err", UnsupportedDeflatedEntryError)
                 ELSE IF path_region_offset + path_region_size > Len(mmap)
                 THEN PkgFailed("panic", NoError)
                 ELSE AddRead(entry_builders, 1,
                              SubSeq(mmap, path_region_offset + 1,
                                     path_region_offset + path_region_size),
                              new)

\* pkg::reader::read_package_from_file on a file holding the bytes mmap.  The
\* slice mmap[..INDEX_SIZE] panics on a shorter file, and so do the slices of
\* the header and path regions when they reach past the end of the file.
read_package_from_file(mmap) ==
    IF Len(mmap) < INDEX_SIZE
    THEN PkgFailed("panic", NoError)
    ELSE LET at == SignatureMismatchAt(mmap)
             index_size == read_u16_be(mmap, 4)
             entry_size == read_u16_be(mmap, 6)
         IN  IF at # 0
             THEN PkgFailed("Err", SignatureMismatchError(PKG_SIGNATURE[at], mmap[at]))
             ELSE IF index_size # INDEX_SIZE
             THEN PkgFailed("Err", HeaderSizeMismatchError(INDEX_SIZE, index_size))
             ELSE IF entry_size # ENTRY_SIZE
             THEN PkgFailed("Err", EntriesHeaderSizeMismatchError(ENTRY_SIZE, entry_size))
             ELSE ReadPkgBody(mmap)

---------------------------------------------------------------------------
(* State *)

\* nothing written yet; nothing read yet
NoOutput == [result |-> "None", bytes |-> <<>>]
NotLoaded == [result |-> "None", entries |-> <<>>, index |-> EmptyMap]

\* the stream is read as it was written
NoDamage == [kind |-> "None", pos |-> 0, bytes |-> <<>>]

\* no file on disk; no call on files running; no map
NoFiles == [path \in {} |-> <<>>]
Idle ==
    [at |-> "idle", op |-> "None", destination |-> "None", format |-> "None",
     fault |-> "none", result |-> "None", dropped |-> FALSE, found |-> NoFiles]
NoAside == fs = NoFiles /\ pc = Idle /\ strong_count = 0

\* the Package as it is now
package == [entries |-> entries, index |-> inner_path_to_entry_index]

\* the Package as it was when the last call was made
before == [entries |-> last.pre_entries, index |-> last.pre_index]

Call(op, inner_path, bytes, result) ==
    [op |-> op, inner_path |-> inner_path, content |-> bytes, result |-> result,
     pre_entries |-> entries, pre_index |-> inner_path_to_entry_index]

\* a panic ends the program; a consumed Package takes no more calls
Usable == last.result # "panic" /\ output = NoOutput

Init ==
    /\ entries = new.entries
    /\ inner_path_to_entry_index = new.index
    /\ last = Call("new", <<>>, <<>>, "Ok")
    /\ output = NoOutput
    /\ loaded = NotLoaded
    /\ damage = NoDamage
    /\ NoAside

Apply(op, inner_path, bytes, r) ==
    /\ entries' = r.entries
    /\ inner_path_to_entry_index' = r.index
    /\ last' = Call(op, inner_path, bytes, r.result)
    /\ UNCHANGED <<aside, output, loaded, damage>>

AddEntry ==
    /\ Usable
    /\ \E p \in InnerPaths, c \in Contents :
          LET r == add_entry(package, from_byte_array(p, c))
          IN  /\ Len(r.entries) <= MaxEntries
              /\ Apply("add_entry", p, c, r)

PutEntry ==
    /\ Usable
    /\ \E p \in InnerPaths, c \in Contents :
          LET r == put_entry(package, from_byte_array(p, c))
          IN  /\ Len(r.entries) <= MaxEntries
              /\ Apply("put_entry", p, c, r)

RemoveEntry ==
    /\ Usable
    /\ \E p \in InnerPaths :
          Apply("remove_entry", p, <<>>, remove_entry(package, p))

Clear ==
    /\ Usable
    /\ Apply("clear", <<>>, <<>>, clear(package))

\* Package::into_output_dat: the Package is consumed and written to a fresh
\* output
IntoOutputDat ==
    /\ Usable
    /\ output' = write_package_to_output(package, <<>>)
    /\ last' = Call("into_output_dat", <<>>, <<>>, output'.result)
    /\ UNCHANGED <<aside, entries, inner_path_to_entry_index, loaded, damage>>

\* Package::from_file_dat on the file written by into_output_dat
FromFileDat ==
    /\ last.op = "into_output_dat"
    /\ output.result = "Ok"
    /\ loaded = NotLoaded
    /\ loaded' = read_from_input(output.bytes)
    /\ UNCHANGED <<aside, entries, inner_path_to_entry_index, last, output, damage>>

Next == AddEntry \/ PutEntry \/ RemoveEntry \/ Clear \/ IntoOutputDat \/ FromFileDat

Spec == Init /\ [][Next]_vars

---------------------------------------------------------------------------
(* The codecs: a Package built by add_entry is written in one of the two    *)
(* formats; the file is read back as written, or after it was cut short or  *)
(* some of its bytes were overwritten.                                      *)

\* the Package built by calling add_entry with each of the entries es
RECURSIVE Built(_, _)
Built(es, pkg) ==
    IF es = <<>>
    THEN pkg
    ELSE LET r == add_entry(pkg, from_byte_array(es[1][1], es[1][2]))
         IN  Built(Tail(es), [entries |-> r.entries, index |-> r.index])

\* the entries of the Packages that are written: up to MaxEntries entries of
\* distinct paths, and the entry of the writers' tests
WrittenEntries ==
    { es \in UNION { [1..n -> InnerPaths \X Contents] : n \in 0..MaxEntries } :
          \A i, j \in 1..Len(es) : es[i][1] = es[j][1] => i = j }
      \cup { << <<TestPath, TestContent>> >> }

InitCodec ==
    /\ \E es \in WrittenEntries :
          /\ entries = Built(es, new).entries
          /\ inner_path_to_entry_index = Built(es, new).index
    /\ last = Call("add_entry", <<>>, <<>>, "Ok")
    /\ output = NoOutput
    /\ loaded = NotLoaded
    /\ damage = NoDamage
    /\ NoAside

\* Package::into_output_pkg: the Package is consumed and written to a fresh
\* output
IntoOutputPkg ==
    /\ Usable
    /\ output' = pkg_write_package_to_output(package, <<>>)
    /\ last' = Call("into_output_pkg", <<>>, <<>>, output'.result)
    /\ UNCHANGED <<aside, entries, inner_path_to_entry_index, loaded, damage>>

\* the written file is cut down to its first k bytes (at least one: mapping
\* an empty file is left out)
Truncate ==
    /\ output.result = "Ok"
    /\ loaded = NotLoaded
    /\ damage = NoDamage
    /\ \E k \in 1..(Len(output.bytes) - 1) :
          /\ output' = [output EXCEPT !.bytes = SubSeq(@, 1, k)]
          /\ damage' = [kind |-> "truncate", pos |-> k, bytes |-> <<>>]
    /\ UNCHANGED <<aside, entries, inner_path_to_entry_index, last, loaded>>

\* a run of n bytes of the written file, from position pos on, is overwritten
\* with the byte v
Overwrite ==
    /\ output.result = "Ok"
    /\ loaded = NotLoaded
    /\ damage = NoDamage
    /\ \E pos \in 0..(Len(output.bytes) - 1), n \in 1..MaxRun, v \in DamageBytes :
          /\ pos + n <= Len(output.bytes)
          /\ output' = [output EXCEPT !.bytes =
                            [i \in 1..Len(@) |->
                                IF i > pos /\ i <= pos + n THEN v ELSE @[i]]]
          /\ output'.bytes # output.bytes
          /\ damage' = [kind |-> "overwrite", pos |-> pos, bytes |-> [i \in 1..n |-> v]]
    /\ UNCHANGED <<aside, entries, inner_path_to_entry_index, last, loaded>>

\* Package::from_file_pkg on the file written by into_output_pkg
FromFilePkg ==
    /\ last.op = "into_output_pkg"
    /\ output.result = "Ok"
    /\ loaded = NotLoaded
    /\ loaded' = read_package_from_file(output.bytes)
    /\ UNCHANGED <<aside, entries, inner_path_to_entry_index, last, output, damage>>

NextCodec ==
    IntoOutputDat \/ IntoOutputPkg \/ Truncate \/ Overwrite \/ FromFileDat \/ FromFilePkg

SpecCodec == InitCodec /\ [][NextCodec]_vars

---------------------------------------------------------------------------
(* The PKG header: the file of a Package without entries, 16 bytes of       *)
(* header and nothing else, is read back as written, or with bytes          *)
(* overwritten, or cut short, or both.                                      *)

\* a file with overwritten bytes is cut down to its first k bytes, the
\* overwritten ones among them
CutShort ==
    /\ output.result = "Ok"
    /\ loaded = NotLoaded
    /\ damage.kind = "overwrite"
    /\ \E k \in (damage.pos + Len(damage.bytes))..(Len(output.bytes) - 1) :
          /\ output' = [output EXCEPT !.bytes = SubSeq(@, 1, k)]
          /\ damage' = [damage EXCEPT !.kind = "overwrite, truncate"]
    /\ UNCHANGED <<aside, entries, inner_path_to_entry_index, last, loaded>>

NextHeader == IntoOutputPkg \/ Truncate \/ Overwrite \/ CutShort \/ FromFilePkg

SpecHeader == Init /\ [][NextHeader]_vars

---------------------------------------------------------------------------
(* The order of the tables: the offsets of the table of a DAT file, or the  *)
(* entry headers of a PKG file, are put in another order, while the         *)
(* records, the paths and the contents stay where they are.                 *)

\* the orders of n things other than the one they are in
Reorderings(n) ==
    { perm \in [1..n -> 1..n] :
          /\ \A i, j \in 1..n : perm[i] = perm[j] => i = j
          /\ \E i \in 1..n : perm[i] # i }

\* the bytes b with the n slices of size bytes that follow the first base
\* bytes put in the order perm
Reordered(b, base, size, n, perm) ==
    [k \in 1..Len(b) |->
        IF k > base /\ k <= base + size * n
        THEN b[base + size * (perm[((k - base - 1) \div size) + 1] - 1)
                   + ((k - base - 1) % size) + 1]
        ELSE b[k]]

ReorderDat ==
    /\ last.op = "into_output_dat"
    /\ output.result = "Ok"
    /\ loaded = NotLoaded
    /\ damage = NoDamage
    /\ \E perm \in Reorderings(Len(entries)) :
          /\ output' = [output EXCEPT !.bytes = Reordered(@, 4, 4, Len(entries), perm)]
          /\ damage' = [kind |-> "reorder", pos |-> 0, bytes |-> perm]
    /\ UNCHANGED <<aside, entries, inner_path_to_entry_index, last, loaded>>

ReorderPkg ==
    /\ last.op = "into_output_pkg"
    /\ output.result = "Ok"
    /\ loaded = NotLoaded
    /\ damage = NoDamage
    /\ \E perm \in Reorderings(Len(entries)) :
          /\ output' = [output EXCEPT !.bytes =
                            Reordered(@, INDEX_SIZE, ENTRY_SIZE, Len(entries), perm)]
          /\ damage' = [kind |-> "reorder", pos |-> 0, bytes |-> perm]
    /\ UNCHANGED <<aside, entries, inner_path_to_entry_index, last, loaded>>

NextOrder ==
    IntoOutputDat \/ IntoOutputPkg \/ ReorderDat \/ ReorderPkg \/ FromFileDat \/ FromFilePkg

SpecOrder == InitCodec /\ [][NextOrder]_vars

---------------------------------------------------------------------------
(* Writing without consuming: the Package is edited and written by          *)
(* to_output, which borrows it, so that it can be edited and written again; *)
(* or it is consumed by into_output, the file is read, and the Package read *)
(* is written in turn.  The bytes to_output gives are kept in last.content. *)

\* Package::to_output_dat: the Package is borrowed and written to a fresh
\* output
ToOutputDat ==
    /\ Usable
    /\ LET w == write_package_to_output(package, <<>>)
       IN  last' = Call("to_output_dat", <<>>, w.bytes, w.result)
    /\ UNCHANGED <<aside, entries, inner_path_to_entry_index, output, loaded, damage>>

\* Package::to_output_pkg
ToOutputPkg ==
    /\ Usable
    /\ LET w == pkg_write_package_to_output(package, <<>>)
       IN  last' = Call("to_output_pkg", <<>>, w.bytes, w.result)
    /\ UNCHANGED <<aside, entries, inner_path_to_entry_index, output, loaded, damage>>

\* Package::to_output_dat of the Package that was read; its entries take
\* their contents from the map of the file read
LoadedToOutputDat ==
    /\ last.op \in {"into_output_dat", "into_output_pkg"}
    /\ loaded.result = "Ok"
    /\ LET w == write_package_to_output([entries |-> loaded.entries, index |-> loaded.index],
                                        output.bytes)
       IN  last' = Call("loaded_to_output_dat", <<>>, w.bytes, w.result)
    /\ UNCHANGED <<aside, entries, inner_path_to_entry_index, output, loaded, damage>>

\* Package::to_output_pkg of the Package that was read
LoadedToOutputPkg ==
    /\ last.op \in {"into_output_dat", "into_output_pkg"}
    /\ loaded.result = "Ok"
    /\ LET w == pkg_write_package_to_output([entries |-> loaded.entries,
                                             index |-> loaded.index], output.bytes)
       IN  last' = Call("loaded_to_output_pkg", <<>>, w.bytes, w.result)
    /\ UNCHANGED <<aside, entries, inner_path_to_entry_index, output, loaded, damage>>

NextWrite ==
    \/ AddEntry \/ PutEntry \/ RemoveEntry \/ Clear
    \/ ToOutputDat \/ ToOutputPkg
    \/ IntoOutputDat \/ IntoOutputPkg
    \/ FromFileDat \/ FromFilePkg
    \/ LoadedToOutputDat \/ LoadedToOutputPkg

SpecWrite == Init /\ [][NextWrite]_vars

---------------------------------------------------------------------------
(* The path hash on its own: calculate_path_hash is called with one path     *)

\* the Strings of up to MaxPathChars of the chars PathChars, and the two paths
\* of the tests of pkg::shared
HashedPaths ==
    { from_chars(cs) : cs \in UNION { [1..n -> PathChars] : n \in 0..MaxPathChars } }
      \cup { Test1Txt, CivilBattleOgg }

CalculatePathHash ==
    /\ last.op = "new"
    /\ \E p \in HashedPaths :
          last' = Call("calculate_path_hash", p, <<>>, calculate_path_hash(p))
    /\ UNCHANGED <<aside, entries, inner_path_to_entry_index, output, loaded, damage>>

SpecHash == Init /\ [][CalculatePathHash]_vars

---------------------------------------------------------------------------
(* The writers' arithmetic on sizes that do not fit 32 bits.  A usize (64   *)
(* bits) is kept as [hi, lo], standing for hi * 2^24 + lo with lo < 2^24;   *)
(* a u32 is one with hi < 256, a u24 one with hi = 0.  A Package is given   *)
(* by the lengths of the paths and contents of its entries.                 *)

Wide(hi, lo) == [hi |-> hi + (lo \div 16777216), lo |-> lo % 16777216]

\* a + b on usize / u64
WAdd(a, b) == Wide(a.hi + b.hi, a.lo + b.lo)

\* `as u32`
as_u32(a) == [hi |-> a.hi % 256, lo |-> a.lo]

\* a > u32::MAX as usize
ExceedsU32(a) == a.hi >= 256

\* `+=` on u32: an overflow panics in a build with overflow checks and wraps
\* in one without
AddU32(a, b, overflow_checks) ==
    LET sum == WAdd(a, b)
    IN  [result |-> IF ExceedsU32(sum) /\ overflow_checks THEN "panic" ELSE "Ok",
         value |-> as_u32(sum)]

\* the fields of EntryHeader, and whether building or writing it panicked
SizedHeader(result, inner_path_offset, data_offset, data_size) ==
    [result |-> result, inner_path_offset |-> inner_path_offset,
     data_offset |-> data_offset, data_size |-> data_size,
     unpacked_data_size |-> data_size]

\* the first loop of pkg::writer::write_package_to_output on the lengths of
\* the entries, from entry number i on: `len() as u32` cuts silently,
\* `data_offset +=` may overflow
RECURSIVE CollectSizedHeaders(_, _, _, _, _, _)
CollectSizedHeaders(sizes, i, data_offset, entry_headers, path_region_len, checks) ==
    IF i > Len(sizes)
    THEN [result |-> "Ok", entry_headers |-> entry_headers,
          path_region_len |-> path_region_len]
    ELSE LET header == SizedHeader("Ok", as_u32(path_region_len), data_offset,
                                   as_u32(sizes[i].content_len))
             next == AddU32(data_offset, as_u32(sizes[i].content_len), checks)
         IN  IF next.result # "Ok"
             THEN [result |-> "panic", entry_headers |-> entry_headers,
                   path_region_len |-> path_region_len]
             ELSE CollectSizedHeaders(sizes, i + 1, next.value,
                      Append(entry_headers, header),
                      WAdd(path_region_len, WAdd(sizes[i].path_len, Wide(0, 1))),
                      checks)

\* the loop `for mut entry_header in entry_headers` on sizes, from header
\* number i on: `data_offset += data_region_offset as u32` may overflow, and
\* write_u24 panics on a value that does not fit three bytes
RECURSIVE WriteSizedHeaders(_, _, _, _, _)
WriteSizedHeaders(entry_headers, i, data_region_offset, written, overflow_checks) ==
    IF i > Len(entry_headers)
    THEN [result |-> "Ok", headers |-> written]
    ELSE LET rebased == AddU32(entry_headers[i].data_offset, as_u32(data_region_offset),
                               overflow_checks)
         IN  IF rebased.result # "Ok" \/ entry_headers[i].inner_path_offset.hi # 0
             THEN [result |-> "panic", headers |-> written]
             ELSE WriteSizedHeaders(entry_headers, i + 1, data_region_offset,
                      Append(written,
                             [entry_headers[i] EXCEPT !.data_offset = rebased.value]),
                      overflow_checks)

\* what a PKG write gives: its result, its error, and the fields written
SizedPkg(result, error, size, entry_count_written, path_region_size_written, headers) ==
    [result |-> result, error |-> error, size |-> size,
     entry_count |-> entry_count_written, path_region_size |-> path_region_size_written,
     headers |-> headers]

NotWritten == <<>>

\* pkg::writer::write_package_to_output on a Package of count entries whose
\* paths and contents have the lengths sizes (count is Len(sizes), unless it
\* exceeds u32::MAX: the entries are not looked at then)
pkg_write_sizes(count, sizes, overflow_checks) ==
    IF ExceedsU32(count)
    THEN SizedPkg("Err", "EntryCountExceededError", Wide(0, 0), NotWritten, NotWritten,
                  <<>>)
    ELSE LET collected == CollectSizedHeaders(sizes, 1, Wide(0, 0), <<>>, Wide(0, 0),
                                              overflow_checks)
             path_len == collected.path_region_len
             data_region_offset ==
                 WAdd(WAdd(Wide(0, 16 + 20 * Len(sizes)), path_len),
                      Wide(0, 4 - (path_len.lo % 4)))
             w == WriteSizedHeaders(collected.entry_headers, 1, data_region_offset, <<>>,
                                    overflow_checks)
         IN  IF collected.result # "Ok"
             THEN SizedPkg("panic", "None", Wide(0, 0), <<as_u32(count)>>, NotWritten, <<>>)
             ELSE IF ExceedsU32(path_len)
             THEN SizedPkg("Err", "PathAreaSizeExceededError", path_len,
                           <<as_u32(count)>>, NotWritten, <<>>)
             ELSE SizedPkg(w.result, "None", Wide(0, 0), <<as_u32(count)>>,
                           <<as_u32(path_len)>>, w.headers)

\* the records of dat::writer::write_package_to_output on sizes, from entry
\* number i on: the stream position and the two lengths are cut to u32
RECURSIVE WriteSizedEntries(_, _, _, _)
WriteSizedEntries(sizes, i, position, written) ==
    IF i > Len(sizes)
    THEN written
    ELSE WriteSizedEntries(sizes, i + 1,
             WAdd(WAdd(position, Wide(0, 8)),
                  WAdd(sizes[i].path_len, sizes[i].content_len)),
             Append(written,
                    [offset |-> as_u32(position),
                     content_len |-> as_u32(sizes[i].content_len),
                     path_len |-> as_u32(sizes[i].path_len)]))

\* dat::writer::write_package_to_output on a Package of count entries
dat_write_sizes(count, sizes) ==
    [result |-> "Ok",
     entry_count |-> as_u32(count),
     records |-> WriteSizedEntries(sizes, 1, Wide(0, 4 + 4 * Len(sizes)), <<>>)]

\* the most entries of a Package given by sizes
MaxBigEntries == 2

\* the lengths of paths and of contents: 3, 2^24 - 1, 2^31 - 1 and 2^32 - 2
\* bytes; 0, 7, 2^31 and 2^32 bytes
PathLens == { Wide(0, 3), Wide(0, 16777215), Wide(127, 16777215), Wide(255, 16777214) }
ContentLens == { Wide(0, 0), Wide(0, 7), Wide(128, 0), Wide(256, 0) }

\* the Packages written: up to MaxBigEntries entries, or 2^32 or 2^32 + 1
\* entries (none of which is looked at)
SizedPackages ==
    { [count |-> Wide(0, Len(sizes)), sizes |-> sizes] :
          sizes \in UNION { [1..n -> [path_len : PathLens, content_len : ContentLens]] :
                                n \in 0..MaxBigEntries } }
      \cup { [count |-> c, sizes |-> <<>>] : c \in { Wide(256, 0), Wide(256, 1) } }

\* no DAT write was made
NoDatSizes == [result |-> "None", entry_count |-> Wide(0, 0), records |-> <<>>]

\* a Package is written in both formats, by a build with or without overflow
\* checks; one of more than u32::MAX entries in the PKG format only, as the
\* DAT writer goes through its entries
WriteSizes ==
    /\ last.op = "new"
    /\ \E p \in SizedPackages, overflow_checks \in BOOLEAN :
          last' = Call("write_sizes", p, overflow_checks,
                       [pkg |-> pkg_write_sizes(p.count, p.sizes, overflow_checks),
                        dat |-> IF p.count = Wide(0, Len(p.sizes))
                                THEN dat_write_sizes(p.count, p.sizes)
                                ELSE NoDatSizes])
    /\ UNCHANGED <<aside, entries, inner_path_to_entry_index, output, loaded, damage>>

SpecSizes == Init /\ [][WriteSizes]_vars

---------------------------------------------------------------------------
(* Writing to a path: to_path opens the destination and writes to it;       *)
(* into_path opens a file next to the destination, writes to it, drops the  *)
(* Package, removes the destination and renames the written file.  The      *)
(* operating system may refuse to open the file, fail a write that reaches  *)
(* the file, or fail the last flush, which BufWriter makes when it is       *)
(* dropped and whose error it ignores.                                      *)

\* a path: its file stem and its extension
PathBuf(stem, extension) == [stem |-> stem, extension |-> extension]

\* Path::with_extension
with_extension(path, extension) == [path EXCEPT !.extension = extension]

\* BTreeMap::remove, and std::fs::remove_file on the files of fs
MapRemove(m, key) == [k \in (DOMAIN m) \ {key} |-> m[k]]

\* the destinations the calls are given
Destinations == { PathBuf("out", "dat"), PathBuf("out", "tmp") }

\* what a file that is on disk before the call holds
OldBytes == <<7>>

\* the files on disk before the call: each of the paths is absent or holds
\* OldBytes
InitialFiles ==
    UNION { [present -> {OldBytes}] :
                present \in SUBSET { PathBuf("out", "dat"), PathBuf("out", "tmp") } }

Formats == { "dat", "pkg" }

\* where the operating system fails the call, if it does
Faults == { "none", "open", "write", "drop" }

\* PackageWriter::write_package_to_output of the writer of the format
Archive(format, pkg) ==
    IF format = "dat"
    THEN write_package_to_output(pkg, <<>>)
    ELSE pkg_write_package_to_output(pkg, <<>>)

\* what the file holds of the bytes written when the flush of the dropped
\* BufWriter fails: the writes made since the last seek are lost, which are
\* the offsets of a DAT file, left as zeros, and the data region of a PKG file
LostOnDrop(format, bytes) ==
    IF format = "dat"
    THEN [k \in 1..Len(bytes) |->
             IF k > 4 /\ k <= 4 + 4 * read_u32_le(bytes, 0) THEN 0 ELSE bytes[k]]
    ELSE SubSeq(bytes, 1, INDEX_SIZE + ENTRY_SIZE * read_u32_be(bytes, 8)
                              + read_u32_be(bytes, 12))

\* a call on a path: where it is, what it was given, what it returned,
\* whether the Package has been dropped, and the files as the call found them
PathCall(at, op, destination, format, fault, result, dropped, found) ==
    [at |-> at, op |-> op, destination |-> destination, format |-> format,
     fault |-> fault, result |-> result, dropped |-> dropped, found |-> found]

\* the call with its position, result and Package changed
Moved(at, result, dropped) ==
    [pc EXCEPT !.at = at, !.result = result, !.dropped = dropped]

\* the bytes that a write through BufWriter, dropped afterwards, leaves in
\* the file, and what the writer returns
Written(format, fault, pkg) ==
    LET w == Archive(format, pkg)
    IN  IF w.result # "Ok" THEN [result |-> w.result, bytes |-> <<>>]
        ELSE IF fault = "write" THEN [result |-> "Err", bytes |-> <<>>]
        ELSE IF fault = "drop" THEN [result |-> "Ok", bytes |-> LostOnDrop(format, w.bytes)]
        ELSE w

\* Package::to_path
ToPath ==
    /\ Usable
    /\ pc = Idle
    /\ \E destination \in Destinations, format \in Formats, fault \in Faults :
          LET w == Written(format, fault, package)
          IN  IF fault = "open"
              THEN /\ pc' = PathCall("done", "to_path", destination, format, fault,
                                     "Err", FALSE, fs)
                   /\ fs' = fs
              ELSE /\ pc' = PathCall("done", "to_path", destination, format, fault,
                                     w.result, FALSE, fs)
                   /\ fs' = MapInsert(fs, destination, w.bytes)
    /\ UNCHANGED <<entries, inner_path_to_entry_index, last, output, loaded, damage,
                   strong_count>>

\* Package::into_path, up to the opening of the file next to the destination
IntoPathOpen ==
    /\ Usable
    /\ pc = Idle
    /\ \E destination \in Destinations, format \in Formats, fault \in Faults :
          IF fault = "open"
          THEN /\ pc' = PathCall("done", "into_path", destination, format, fault,
                                 "Err", TRUE, fs)
               /\ fs' = fs
          ELSE /\ pc' = PathCall("opened", "into_path", destination, format, fault,
                                 "None", FALSE, fs)
               /\ fs' = MapInsert(fs, with_extension(destination, "tmp"), <<>>)
    /\ UNCHANGED <<entries, inner_path_to_entry_index, last, output, loaded, damage,
                   strong_count>>

\* into_path: self.into_output(BufWriter::new(file), writer)?, at whose return
\* the BufWriter and then the Package are dropped
IntoPathWrite ==
    /\ pc.at = "opened"
    /\ LET w == Written(pc.format, pc.fault, package)
       IN  /\ fs' = MapInsert(fs, with_extension(pc.destination, "tmp"), w.bytes)
           /\ pc' = IF w.result = "Ok"
                    THEN Moved("written", "None", TRUE)
                    ELSE Moved("done", w.result, TRUE)
    /\ UNCHANGED <<entries, inner_path_to_entry_index, last, output, loaded, damage,
                   strong_count>>

\* into_path: std::fs::remove_file(destination_path)?
IntoPathRemove ==
    /\ pc.at = "written"
    /\ IF pc.destination \in DOMAIN fs
       THEN /\ fs' = MapRemove(fs, pc.destination)
            /\ pc' = Moved("removed", "None", TRUE)
       ELSE /\ fs' = fs
            /\ pc' = Moved("done", "Err", TRUE)
    /\ UNCHANGED <<entries, inner_path_to_entry_index, last, output, loaded, damage,
                   strong_count>>

\* into_path: std::fs::rename(destination_path_tmp, destination_path)?
IntoPathRename ==
    /\ pc.at = "removed"
    /\ LET destination_path_tmp == with_extension(pc.destination, "tmp")
       IN  IF destination_path_tmp \in DOMAIN fs
           THEN /\ fs' = MapInsert(MapRemove(fs, destination_path_tmp),
                                   pc.destination, fs[destination_path_tmp])
                /\ pc' = Moved("done", "Ok", TRUE)
           ELSE /\ fs' = fs
                /\ pc' = Moved("done", "Err", TRUE)
    /\ UNCHANGED <<entries, inner_path_to_entry_index, last, output, loaded, damage,
                   strong_count>>

InitPath ==
    /\ \E es \in WrittenEntries :
          /\ entries = Built(es, new).entries
          /\ inner_path_to_entry_index = Built(es, new).index
    /\ last = Call("add_entry", <<>>, <<>>, "Ok")
    /\ output = NoOutput
    /\ loaded = NotLoaded
    /\ damage = NoDamage
    /\ fs \in InitialFiles
    /\ pc = Idle
    /\ strong_count = 0

NextPath == ToPath \/ IntoPathOpen \/ IntoPathWrite \/ IntoPathRemove \/ IntoPathRename

SpecPath == InitPath /\ [][NextPath]_vars

---------------------------------------------------------------------------
(* Extracting: extract writes every entry of the Package to a file under    *)
(* the destination directory.  The files are named here by their path under *)
(* the destination; the destination itself is the empty path.  The          *)
(* operating system may fail one of the calls made for one entry, or write  *)
(* less than it was given, which File::write reports as a success.          *)

\* what fs holds for a path that is a directory: no byte is negative
Directory == <<-1>>

\* the positions of the separators of a path
Separators(inner_path) == { k \in 1..Len(inner_path) : inner_path[k] = 47 }

\* Path::parent of the path of an entry under the destination
parent(inner_path) ==
    IF Separators(inner_path) = {}
    THEN <<>>
    ELSE SubSeq(inner_path, 1,
                (CHOOSE k \in Separators(inner_path) :
                     \A other \in Separators(inner_path) : other <= k) - 1)

\* std::fs::create_dir_all of the parent of an entry: the destination and
\* every directory on the way to the entry are there afterwards
create_dir_all(files, inner_path) ==
    [path \in (DOMAIN files) \cup {<<>>}
                 \cup { SubSeq(inner_path, 1, k - 1) : k \in Separators(inner_path) } |->
        IF path \in DOMAIN files THEN files[path] ELSE Directory]

\* the calls made for one entry that the operating system may fail, and
\* "short" for a write that takes all bytes but the last
ExtractFaults == { "create_dir_all", "open", "write", "short" }

\* no call fails
NoFault == [entry |-> 0, call |-> "none"]

\* the loop of extract from entry number i on, on the files found so far;
\* the fault names the entry and the call that fails
RECURSIVE ExtractEntries(_, _, _, _)
ExtractEntries(ents, i, files, fault) ==
    IF i > Len(ents)
    THEN [result |-> "Ok", files |-> files, reached |-> Len(ents)]
    ELSE LET failing == IF fault.entry = i THEN fault.call ELSE "none"
             dirs == create_dir_all(files, ents[i].inner_path)
             c == content(ents[i], <<>>)
             given == IF failing = "short" /\ c.bytes # <<>>
                      THEN SubSeq(c.bytes, 1, Len(c.bytes) - 1)
                      ELSE c.bytes
         IN  IF failing = "create_dir_all"
             THEN [result |-> "Err", files |-> files, reached |-> i]
             ELSE IF failing = "open"
             THEN [result |-> "Err", files |-> dirs, reached |-> i]
             ELSE IF failing = "write"
             THEN [result |-> "Err", files |-> MapInsert(dirs, ents[i].inner_path, <<>>),
                   reached |-> i]
             ELSE ExtractEntries(ents, i + 1, MapInsert(dirs, ents[i].inner_path, given),
                                 fault)

\* Package::extract into an empty or absent destination directory
extract(pkg, fault) == ExtractEntries(pkg.entries, 1, NoFiles, fault)

Extract ==
    /\ Usable
    /\ pc = Idle
    /\ \E fault \in {NoFault} \cup [entry : 1..Len(entries), call : ExtractFaults] :
          LET r == extract(package, fault)
          IN  /\ fs' = r.files
              /\ pc' = PathCall("done", "extract", <<>>, "None", fault, r.result, FALSE,
                                r.reached)
    /\ UNCHANGED <<entries, inner_path_to_entry_index, last, output, loaded, damage,
                   strong_count>>

\* the edits that make the Package, all made before it is extracted
EditBeforeExtract ==
    /\ pc = Idle
    /\ (AddEntry \/ PutEntry \/ RemoveEntry \/ Clear)

NextExtract == EditBeforeExtract \/ Extract

SpecExtract == Init /\ [][NextExtract]_vars

---------------------------------------------------------------------------
(* The map of the file read: the readers put the map in an Rc, of which     *)
(* every entry built holds one clone.  The Package that a read returned is  *)
(* edited and dropped; every entry dropped gives up its clone.              *)

\* the entry takes its content from the map
IsMapped(entry) == entry.source.kind = "MemoryMappedFile"

\* Rc::strong_count of the map when a reader returns: Rc::new(mmap) makes
\* one reference, every build(mmap_rc.clone()) one more, and the return
\* drops mmap_rc; a read that fails drops the entries it built as well
strong_count_after_read(r) ==
    IF r.result = "Ok" THEN 1 + Len(r.entries) - 1 ELSE 0

\* put_entry when the entry it replaces is kept alive
kept_by_put_entry(pkg, entry) == <<>>

\* the entries that put_entry drops: the one Vec::remove returns
dropped_by_put_entry(pkg, entry) ==
    IF entry.inner_path \in DOMAIN pkg.index
          /\ pkg.index[entry.inner_path] < Len(pkg.entries)
    THEN <<pkg.entries[pkg.index[entry.inner_path] + 1]>>
    ELSE <<>>

\* the entries that remove_entry drops: the one Vec::remove returns
dropped_by_remove_entry(pkg, inner_path) ==
    IF inner_path \in DOMAIN pkg.index /\ pkg.index[inner_path] < Len(pkg.entries)
    THEN <<pkg.entries[pkg.index[inner_path] + 1]>>
    ELSE <<>>

\* the entries that clear drops, and those that the drop of the Package drops
dropped_by_clear(pkg) == pkg.entries

\* the count of the map's references once the entries dropped are dropped:
\* each entry that holds a clone gives it up
drop_entries(count, dropped) ==
    count - Cardinality({ i \in 1..Len(dropped) : IsMapped(dropped[i]) })

\* the file that a Package of the entries es is written to in the format
WrittenFile(format, es) ==
    IF format = "dat"
    THEN write_package_to_output(Built(es, new), <<>>).bytes
    ELSE pkg_write_package_to_output(Built(es, new), <<>>).bytes

\* Package::from_file_dat, Package::from_file_pkg
from_file(format, mmap) ==
    IF format = "dat" THEN read_from_input(mmap) ELSE read_package_from_file(mmap)

\* the Package is the one that a read of a written file returned; when the
\* read failed there is no map and the Package is a new one
InitMap ==
    /\ \E es \in WrittenEntries, format \in {"dat", "pkg"} :
          LET r == from_file(format, WrittenFile(format, es))
          IN  /\ entries = IF r.result = "Ok" THEN r.entries ELSE <<>>
              /\ inner_path_to_entry_index = IF r.result = "Ok" THEN r.index ELSE EmptyMap
              /\ strong_count = strong_count_after_read(r)
    /\ last = Call("from_file", <<>>, <<>>, "Ok")
    /\ output = NoOutput
    /\ loaded = NotLoaded
    /\ damage = NoDamage
    /\ fs = NoFiles
    /\ pc = Idle

\* a call on the Package that drops the entries dropped
ApplyDropping(op, inner_path, bytes, r, dropped) ==
    /\ entries' = r.entries
    /\ inner_path_to_entry_index' = r.index
    /\ last' = Call(op, inner_path, bytes, r.result)
    /\ strong_count' = drop_entries(strong_count, dropped)
    /\ UNCHANGED <<fs, pc, output, loaded, damage>>

\* the Package has not been dropped
Alive == Usable /\ last.op # "drop"

AddEntryOfRead ==
    /\ Alive
    /\ \E p \in InnerPaths, c \in Contents :
          LET r == add_entry(package, from_byte_array(p, c))
          IN  /\ Len(r.entries) <= MaxEntries
              /\ ApplyDropping("add_entry", p, c, r, <<>>)

PutEntryOfRead ==
    /\ Alive
    /\ \E p \in InnerPaths, c \in Contents :
          LET r == put_entry(package, from_byte_array(p, c))
          IN  /\ Len(r.entries) <= MaxEntries
              /\ ApplyDropping("put_entry", p, c, r,
                               dropped_by_put_entry(package, from_byte_array(p, c)))

RemoveEntryOfRead ==
    /\ Alive
    /\ \E p \in InnerPaths :
          ApplyDropping("remove_entry", p, <<>>, remove_entry(package, p),
                        dropped_by_remove_entry(package, p))

ClearOfRead ==
    /\ Alive
    /\ ApplyDropping("clear", <<>>, <<>>, clear(package), dropped_by_clear(package))

\* the Package goes out of scope
DropOfRead ==
    /\ Alive
    /\ ApplyDropping("drop", <<>>, <<>>, clear(package), dropped_by_clear(package))

NextMap ==
    AddEntryOfRead \/ PutEntryOfRead \/ RemoveEntryOfRead \/ ClearOfRead \/ DropOfRead

SpecMap == InitMap /\ [][NextMap]_vars

---------------------------------------------------------------------------
(* Claims about the Package *)

PathsOf(v) == {v[i].inner_path : i \in 1..Len(v)}

\* the positions (zero-based) of the entries of v stored under inner_path
PositionsOf(v, inner_path) == {i \in 0..(Len(v) - 1) : v[i + 1].inner_path = inner_path}

\* the content of an entry built by from_byte_array
Bytes(entry) == content(entry, <<>>).bytes

\* C1: in every state reachable from new() by add_entry, put_entry,
\* remove_entry and clear, the keys of inner_path_to_entry_index are exactly
\* the inner paths of the entries, and each key maps to the position of the
\* entry that has that path.
C1_IndexAgreesWithEntries ==
    /\ DOMAIN inner_path_to_entry_index = PathsOf(entries)
    /\ \A p \in DOMAIN inner_path_to_entry_index :
          /\ inner_path_to_entry_index[p] < Len(entries)
          /\ entries[inner_path_to_entry_index[p] + 1].inner_path = p

\* C2: in every reachable state no two entries have the same inner path.
C2_NoDuplicatePaths ==
    \A i, j \in 1..Len(entries) :
        entries[i].inner_path = entries[j].inner_path => i = j

\* C3: add_entry with an inner path that is already present returns the
\* error and leaves the Package unchanged: the entry count, the order of the
\* inner paths and the content stored under that path are as before.
C3_AddDuplicateLeavesPackageUnchanged ==
    (last.op = "add_entry" /\ last.inner_path \in PathsOf(last.pre_entries))
    => /\ last.result = "Err"
       /\ entry_count(package) = entry_count(before)
       /\ inner_paths(package) = inner_paths(before)
       /\ content_by_path(package, last.inner_path, <<>>)
            = content_by_path(before, last.inner_path, <<>>)
       /\ package = before

\* C3's case: a duplicate was added under a path whose stored content is not
\* the content offered
C3_Witness ==
    /\ last.op = "add_entry"
    /\ last.inner_path \in PathsOf(last.pre_entries)
    /\ last.result = "Err"
    /\ content_by_path(package, last.inner_path, <<>>) # Some(last.content)

\* C4: add_entry with an inner path that is not present succeeds, appends the
\* entry as the last element, increases the entry count by one and makes
\* entry_exists true and content_by_path return the added content.
C4_AddAbsentAppends ==
    (last.op = "add_entry" /\ last.inner_path \notin PathsOf(last.pre_entries))
    => /\ last.result = "Ok"
       /\ inner_paths(package) = Append(inner_paths(before), last.inner_path)
       /\ entry_count(package) = entry_count(before) + 1
       /\ entry_exists(package, last.inner_path)
       /\ content_by_path(package, last.inner_path, <<>>) = Some(last.content)

\* C5: put_entry with an inner path that exists replaces only that entry's
\* content (same position, same count, every other entry untouched,
\* content_by_path returns the new content); with an absent path it behaves
\* as a successful add_entry.  (Whether the call completes at all is C6.)
C5_PutReplacesInPlace ==
    (last.op = "put_entry" /\ last.result # "panic")
    => IF last.inner_path \in PathsOf(last.pre_entries)
       THEN /\ last.result = "Ok"
            /\ inner_paths(package) = inner_paths(before)
            /\ \A i \in 1..Len(entries) :
                  entries[i].inner_path # last.inner_path
                  => entries[i] = last.pre_entries[i]
            /\ content_by_path(package, last.inner_path, <<>>) = Some(last.content)
       ELSE /\ last.result = "Ok"
            /\ inner_paths(package) = Append(inner_paths(before), last.inner_path)
            /\ content_by_path(package, last.inner_path, <<>>) = Some(last.content)

\* C6: put_entry never fails: in every reachable state a call of put_entry
\* completes normally, with no abort such as an out-of-range position.
C6_PutNeverFails ==
    last.op = "put_entry" => last.result = "Ok"

\* C7: remove_entry returns true exactly when an entry with the path is
\* present; after true the entry is gone (count one less, entry_exists false,
\* content_by_path None, a following add_entry of the path succeeds); on an
\* absent path it returns false and changes nothing.
C7_RemoveResult ==
    last.op = "remove_entry"
    => /\ (last.result = "true") <=> (last.inner_path \in PathsOf(last.pre_entries))
       /\ last.result = "true"
          => /\ entry_count(package) = entry_count(before) - 1
             /\ ~entry_exists(package, last.inner_path)
             /\ content_by_path(package, last.inner_path, <<>>) = None
             /\ \A c \in Contents :
                   add_entry(package, from_byte_array(last.inner_path, c)).result = "Ok"
       /\ last.inner_path \notin PathsOf(last.pre_entries)
          => /\ last.result = "false"
             /\ package = before

\* C8: after remove_entry(p) returned true, inner_paths() is the previous
\* sequence with p deleted, and content_by_path(q) of every remaining path q
\* is the content of q's own entry.
C8_RemoveShiftsIndex ==
    (last.op = "remove_entry" /\ last.result = "true")
    => /\ \E i \in PositionsOf(last.pre_entries, last.inner_path) :
             inner_paths(package) = VecRemove(inner_paths(before), i)
       /\ \A i \in 1..Len(entries) :
             content_by_path(package, entries[i].inner_path, <<>>) = Some(Bytes(entries[i]))

\* C9: clear() leaves the Package equal to a new empty Package: no entries, no
\* inner paths, entry_exists false and content_by_path None for every path.
C9_ClearGivesNewPackage ==
    last.op = "clear"
    => /\ entry_count(package) = 0
       /\ inner_paths(package) = <<>>
       /\ \A p \in InnerPaths :
             /\ ~entry_exists(package, p)
             /\ content_by_path(package, p, <<>>) = None
       /\ package = new

\* C9's case: a Package holding entries was cleared
C9_Witness ==
    last.op = "clear" /\ Len(last.pre_entries) >= 2

---------------------------------------------------------------------------
(* Claims about the DAT codec *)

\* the Package a read returned
loadedPackage == [entries |-> loaded.entries, index |-> loaded.index]

\* C10: DAT round trip: writing a Package with the DAT writer and reading the
\* result with the DAT reader yields a Package with the same inner paths in
\* the same order and, for every path, the same content bytes.
C10_DatRoundTrip ==
    loaded # NotLoaded
    => /\ loaded.result = "Ok"
       /\ inner_paths(loadedPackage) = inner_paths(package)
       /\ \A i \in 1..Len(entries) :
             content_by_path(loadedPackage, entries[i].inner_path, output.bytes)
                = Some(Bytes(entries[i]))

\* The round trip of a Package in which no two entries share an inner path:
\* entry by entry, the Package read back has the paths and the contents of the
\* Package written.
DatRoundTripOfDistinctPaths ==
    (loaded # NotLoaded /\ C2_NoDuplicatePaths)
    => /\ loaded.result = "Ok"
       /\ inner_paths(loadedPackage) = inner_paths(package)
       /\ \A i \in 1..Len(entries) :
             /\ content(loaded.entries[i], output.bytes).bytes = Bytes(entries[i])
             /\ content_by_path(loadedPackage, entries[i].inner_path, output.bytes)
                   = Some(Bytes(entries[i]))

---------------------------------------------------------------------------
(* Claims about the PKG path hash *)

\* a 32-bit word as its bits: bit i is the coefficient of 2^i
ZeroBits == [i \in 0..31 |-> 0]

\* the word rotated right by 5 bit positions
RotateBitsRight5(b) == [i \in 0..31 |-> b[(i + 5) % 32]]

\* the word xor-ed with the code point c (below 2^24)
XorCodePoint(b, c) ==
    [i \in 0..31 |-> IF i < 24 THEN (b[i] + ((c \div (2 ^ i)) % 2)) % 2 ELSE b[i]]

\* the hash of the first k of the chars cs: 0, then for each char in order
\* rotate right by 5 and xor with the code point
RECURSIVE HashOfChars(_, _)
HashOfChars(cs, k) ==
    IF k = 0 THEN ZeroBits
    ELSE XorCodePoint(RotateBitsRight5(HashOfChars(cs, k - 1)), cs[k])

\* the four big-endian bytes of a word given by its bits
BytesOfBits(b) ==
    [k \in 1..4 |->
        LET low == 8 * (4 - k)
        IN  b[low] + 2 * b[low + 1] + 4 * b[low + 2] + 8 * b[low + 3] + 16 * b[low + 4]
              + 32 * b[low + 5] + 64 * b[low + 6] + 128 * b[low + 7]]

\* the chars of a path, lower-cased one by one
LowerChars(p) == [i \in 1..Len(chars(p)) |-> lowercase_char(chars(p)[i])]

\* the chars of a path, with the small letters below U+00FF put in capitals
UpperChars(p) ==
    [i \in 1..Len(chars(p)) |->
        LET c == chars(p)[i]
        IN  IF c \in 97..122 \/ (c \in 224..254 /\ c # 247) THEN c - 32 ELSE c]

\* C18: calculate_path_hash(p) is the 32-bit value obtained by starting from 0
\* and, for each char of the lower-cased path in order, rotating the hash
\* right by 5 and xor-ing it with the code point.  So it does not depend on
\* the case of the path (the path in small letters and the path in capitals
\* hash as the path itself), it depends on the order of the chars (two different
\* chars swapped give another hash), it is 0 for the empty path, 157232055
\* for "test1.txt" and 1735861093 for "audio/music/bp_MUS_CivilBATTLE.ogg".
C18_PathHash ==
    last.op = "calculate_path_hash"
    => LET p == last.inner_path
           hash == last.result
           cs == LowerChars(p)
       IN  /\ hash = BytesOfBits(HashOfChars(cs, Len(cs)))
           /\ hash = calculate_path_hash(to_lowercase(p))
           /\ hash = calculate_path_hash(from_chars(UpperChars(p)))
           /\ (Len(cs) = 2 /\ cs[1] # cs[2])
                 => calculate_path_hash(from_chars(<<chars(p)[2], chars(p)[1]>>)) # hash
           /\ (p = <<>>) => hash = u32_be(0)
           /\ (p = Test1Txt) => hash = u32_be(157232055)
           /\ (p = CivilBattleOgg) => hash = u32_be(1735861093)

\* the hash of "audio/music/bp_MUS_CivilBATTLE.ogg", a path with capitals, was
\* calculated
C18_Witness ==
    /\ last.op = "calculate_path_hash"
    /\ last.inner_path = CivilBattleOgg
    /\ last.result = u32_be(1735861093)

---------------------------------------------------------------------------
(* Claims about the codecs *)

\* the file was written by the PKG / DAT writer and read back as written
PkgReadBack == loaded # NotLoaded /\ last.op = "into_output_pkg" /\ damage = NoDamage
DatReadBack == loaded # NotLoaded /\ last.op = "into_output_dat" /\ damage = NoDamage

\* the Package read back has the paths of the Package written, in the same
\* order, and every entry's content can be read and is the content written
SameAsWritten ==
    /\ loaded.result = "Ok"
    /\ inner_paths(loadedPackage) = inner_paths(package)
    /\ \A i \in 1..Len(entries) :
          /\ content(loaded.entries[i], output.bytes)
                = [result |-> "Ok", bytes |-> Bytes(entries[i])]
          /\ content_by_path(loadedPackage, entries[i].inner_path, output.bytes)
                = Some(Bytes(entries[i]))

\* C11: PKG round trip: writing any Package (any UTF-8 paths, any contents)
\* with the PKG writer and reading the result with the PKG reader succeeds and
\* yields a Package with the same inner paths in the same order and, for
\* every path, the same content bytes.
C11_PkgRoundTrip == PkgReadBack => SameAsWritten

\* no byte of a path of the Package is above 127
AsciiPaths ==
    \A i \in 1..Len(entries) :
        \A k \in 1..Len(entries[i].inner_path) : entries[i].inner_path[k] < 128

\* some entry of the Package has a content that is not empty
SomeContent == \E i \in 1..Len(entries) : Bytes(entries[i]) # <<>>

\* The PKG round trip of a Package whose paths are ASCII and that is empty or
\* holds some content.
PkgRoundTripOfAsciiPaths ==
    (PkgReadBack /\ AsciiPaths /\ (SomeContent \/ entries = <<>>)) => SameAsWritten

\* a path that is not ASCII makes the reader fail with a hash mismatch
PkgRoundTripOfOtherPaths ==
    (PkgReadBack /\ ~AsciiPaths)
    => /\ loaded.result = "Err"
       /\ loaded.error.kind = "PathHashMismatchError"

\* a Package of ASCII paths and empty contents only is read back, but no
\* content of it can be read
PkgRoundTripOfEmptyContents ==
    (PkgReadBack /\ AsciiPaths /\ ~SomeContent /\ entries # <<>>)
    => /\ loaded.result = "Ok"
       /\ inner_paths(loadedPackage) = inner_paths(package)
       /\ \A i \in 1..Len(entries) :
             content(loaded.entries[i], output.bytes).result = "panic"


---------------------------------------------------------------------------
(* Claims about the DAT reader on malformed input *)

\* a DAT read was made, of the file as written or damaged
DatRead == loaded # NotLoaded /\ last.op = "into_output_dat"

\* the file is shorter than the offset table its first four bytes declare
DatShortTable(b) == Len(b) < 4 \/ 4 + 4 * read_u32_le(b, 0) > Len(b)

\* the record that the i-th offset of the table points to, or its path and
\* content, reach past the end of the file
DatEntryPastEnd(b, i) ==
    LET off == read_u32_le(b, 4 * i)
    IN  \/ off + 8 > Len(b)
        \/ off + 8 + read_u32_le(b, off) + read_u32_le(b, off + 4) > Len(b)

\* the path of the record that the i-th offset points to is not UTF-8
DatPathNotUtf8(b, i) ==
    LET off == read_u32_le(b, 4 * i)
    IN  /\ ~DatEntryPastEnd(b, i)
        /\ ~Utf8ValidFrom(SubSeq(b, off + 9, off + 8 + read_u32_le(b, off + 4)), 1)

DatMalformed(b) ==
    \/ DatShortTable(b)
    \/ /\ ~DatShortTable(b)
       /\ \E i \in 1..read_u32_le(b, 0) : DatEntryPastEnd(b, i) \/ DatPathNotUtf8(b, i)

\* C12: a DAT read of malformed input (file shorter than the declared offset
\* table, an offset or length pointing past the end of the file, or invalid
\* UTF-8 in a path) ends with a PackageReadError returned to the caller: it
\* returns no Package, and it does not abort the process.
C12_DatMalformedInput ==
    (DatRead /\ DatMalformed(output.bytes))
    => /\ loaded.result = "Err"
       /\ loaded.entries = <<>>

\* What the reader does with malformed input: it panics, every time, and so
\* returns no Package either.
DatMalformedPanics ==
    (DatRead /\ DatMalformed(output.bytes))
    => /\ loaded.result = "panic"
       /\ loaded.entries = <<>>

\* A DAT read that is not malformed in one of these ways does not panic.
DatWellFormedReturns ==
    (DatRead /\ ~DatMalformed(output.bytes)) => loaded.result \in {"Ok", "Err"}

\* the three kinds of malformed input, each read
DatShortTableRead == DatRead /\ DatShortTable(output.bytes)
DatEntryPastEndRead ==
    /\ DatRead
    /\ ~DatShortTable(output.bytes)
    /\ \E i \in 1..read_u32_le(output.bytes, 0) : DatEntryPastEnd(output.bytes, i)
DatPathNotUtf8Read ==
    /\ DatRead
    /\ ~DatShortTable(output.bytes)
    /\ \A i \in 1..read_u32_le(output.bytes, 0) : ~DatEntryPastEnd(output.bytes, i)
    /\ \E i \in 1..read_u32_le(output.bytes, 0) : DatPathNotUtf8(output.bytes, i)
NoDatShortTableRead == ~DatShortTableRead
NoDatEntryPastEndRead == ~DatEntryPastEndRead
NoDatPathNotUtf8Read == ~DatPathNotUtf8Read


---------------------------------------------------------------------------
(* Claims about the PKG reader's checks of the header *)

\* a PKG read was made, of the file as written or damaged
PkgRead == loaded # NotLoaded /\ last.op = "into_output_pkg"

\* the read failed with error and returned no Package
PkgReadFailedWith(error) ==
    /\ loaded.result = "Err"
    /\ loaded.error = error
    /\ loaded.entries = <<>>
    /\ loaded.index = EmptyMap

\* the first four bytes of the file read are not 'P','K','G','\n'
WrongSignature ==
    /\ Len(output.bytes) >= 4
    /\ SubSeq(output.bytes, 1, 4) # <<80, 75, 71, 10>>

\* the read failed with SignatureMismatchError, whose fields are the expected
\* and the actual byte at the first position where the two differ
FailedAtFirstDifference ==
    \E i \in 1..4 :
        /\ \A j \in 1..(i - 1) : output.bytes[j] = <<80, 75, 71, 10>>[j]
        /\ output.bytes[i] # <<80, 75, 71, 10>>[i]
        /\ PkgReadFailedWith(SignatureMismatchError(<<80, 75, 71, 10>>[i], output.bytes[i]))

\* C13: a PKG read of a stream whose first four bytes differ from
\* 'P','K','G','\n' fails with SignatureMismatchError whose expected/actual
\* fields are the expected and actual byte at the first position where they
\* differ; no Package is returned.
C13_SignatureMismatch == (PkgRead /\ WrongSignature) => FailedAtFirstDifference

\* The same of files that hold the 16 bytes of the header at least.
SignatureMismatchOfWholeHeader ==
    (PkgRead /\ WrongSignature /\ Len(output.bytes) >= 16) => FailedAtFirstDifference

\* A file shorter than the 16 bytes of the header makes the reader panic,
\* whatever its bytes are.
ShortPkgFilePanics ==
    (PkgRead /\ Len(output.bytes) < 16)
    => /\ loaded.result = "panic"
       /\ loaded.entries = <<>>

\* a file with a wrong signature, shorter than the header, was read
ShortWrongSignatureRead == PkgRead /\ WrongSignature /\ Len(output.bytes) < 16
NoShortWrongSignatureRead == ~ShortWrongSignatureRead
\* a whole header with a wrong signature was read, its first byte right
WholeWrongSignatureRead ==
    /\ PkgRead
    /\ WrongSignature
    /\ Len(output.bytes) >= 16
    /\ output.bytes[1] = 80
NoWholeWrongSignatureRead == ~WholeWrongSignatureRead

\* the signature of the file read is right, and the file holds the field
\* header_size / the fields header_size and entry_header_size
RightSignature(len) ==
    /\ Len(output.bytes) >= len
    /\ SubSeq(output.bytes, 1, 4) = <<80, 75, 71, 10>>

\* the fields header_size and entry_header_size of the file read
header_size == 256 * output.bytes[5] + output.bytes[6]
entry_header_size == 256 * output.bytes[7] + output.bytes[8]

\* C14: a PKG read with a correct signature fails with
\* HeaderSizeMismatchError(expected 16, actual v) when the header_size field
\* v is not 16, and otherwise with EntriesHeaderSizeMismatchError(expected 20,
\* actual w) when the entry_header_size field w is not 20 (the header_size
\* check comes first); a read succeeds only if both fields equal their
\* constants.
C14_HeaderSizes ==
    /\ (PkgRead /\ RightSignature(6) /\ header_size # 16)
          => PkgReadFailedWith(HeaderSizeMismatchError(16, header_size))
    /\ (PkgRead /\ RightSignature(8) /\ header_size = 16 /\ entry_header_size # 20)
          => PkgReadFailedWith(EntriesHeaderSizeMismatchError(20, entry_header_size))
    /\ (PkgRead /\ loaded.result = "Ok")
          => RightSignature(8) /\ header_size = 16 /\ entry_header_size = 20

\* The same of files that hold the 16 bytes of the header at least.
HeaderSizesOfWholeHeader ==
    Len(output.bytes) >= 16 => C14_HeaderSizes

\* a file with a right signature and a wrong header_size, shorter than the
\* header, was read
ShortWrongHeaderSizeRead ==
    PkgRead /\ RightSignature(6) /\ header_size # 16 /\ Len(output.bytes) < 16
NoShortWrongHeaderSizeRead == ~ShortWrongHeaderSizeRead
\* whole headers with both sizes wrong / with entry_header_size wrong were read
BothSizesWrongRead ==
    PkgRead /\ RightSignature(16) /\ header_size # 16 /\ entry_header_size # 20
EntrySizeWrongRead ==
    PkgRead /\ RightSignature(16) /\ header_size = 16 /\ entry_header_size # 20
NoBothSizesWrongRead == ~BothSizesWrongRead
NoEntrySizeWrongRead == ~EntrySizeWrongRead


---------------------------------------------------------------------------
(* Claims about the PKG reader's checks of the entry headers *)

\* the field entry_count of the file read
entry_count_field == read_u32_be(output.bytes, 8)

\* the file read holds a right header and the entry headers it declares, so
\* that the reader gets to reading them
HeadersReached ==
    /\ PkgRead
    /\ RightSignature(16)
    /\ header_size = 16
    /\ entry_header_size = 20
    /\ 16 + 20 * entry_count_field <= Len(output.bytes)

\* the fields of the i-th entry header of the file read
flags(i) == output.bytes[16 + 20 * (i - 1) + 5]
path_hash(i) == SubSeq(output.bytes, 16 + 20 * (i - 1) + 1, 16 + 20 * (i - 1) + 4)
path_offset(i) == read_u24_be(output.bytes, 16 + 20 * (i - 1) + 5)
data_offset(i) == read_u32_be(output.bytes, 16 + 20 * (i - 1) + 8)
data_size(i) == read_u32_be(output.bytes, 16 + 20 * (i - 1) + 12)
unpacked_size(i) == read_u32_be(output.bytes, 16 + 20 * (i - 1) + 16)

\* C15 as stated: a PKG read is rejected as unsupported whenever any entry
\* header has any bit set in its flags byte (not only bit 0, the deflate
\* flag); a Package is returned only if every entry's flags byte is 0.
C15_AnyFlagBit ==
    /\ (HeadersReached /\ \E i \in 1..entry_count_field : flags(i) # 0)
          => PkgReadFailedWith(UnsupportedDeflatedEntryError)
    /\ (PkgRead /\ loaded.result = "Ok")
          => \A i \in 1..entry_count_field : flags(i) = 0

\* C15, amended: a PKG read that gets to the entry headers is rejected as
\* unsupported exactly when some entry header has bit 0 (the deflate flag) of
\* its flags byte set; the other bits of the byte are not looked at.  A
\* Package is returned only if bit 0 is clear in every entry's flags byte.
C15_DeflateFlag ==
    /\ (HeadersReached /\ \E i \in 1..entry_count_field : flags(i) % 2 = 1)
          => PkgReadFailedWith(UnsupportedDeflatedEntryError)
    /\ (HeadersReached /\ \A i \in 1..entry_count_field : flags(i) % 2 = 0)
          => loaded.error # UnsupportedDeflatedEntryError
    /\ (PkgRead /\ loaded.result = "Ok")
          => /\ HeadersReached
             /\ \A i \in 1..entry_count_field : flags(i) % 2 = 0

\* a file whose second entry header has the deflate flag set was read and
\* rejected
C15_Witness ==
    /\ HeadersReached
    /\ entry_count_field = 2
    /\ flags(1) = 0
    /\ flags(2) = 1
    /\ PkgReadFailedWith(UnsupportedDeflatedEntryError)

\* a file with bit 1 of a flags byte set was read, and a Package returned
OtherFlagBitRead ==
    /\ HeadersReached
    /\ \E i \in 1..entry_count_field : flags(i) = 2
    /\ loaded.result = "Ok"
NoOtherFlagBitRead == ~OtherFlagBitRead


\* the file as the PKG writer left it
PkgWritten == last.op = "into_output_pkg" /\ output.result = "Ok" /\ damage = NoDamage

\* the writer's half of C16: every entry header written has flags 0, and both
\* its data_size and its unpacked_size are the length of the entry's content
WriterEmitsEqualSizes ==
    PkgWritten
    => /\ entry_count_field = Len(entries)
       /\ \A i \in 1..Len(entries) :
             /\ flags(i) = 0
             /\ data_size(i) = Len(Bytes(entries[i]))
             /\ unpacked_size(i) = data_size(i)

\* C16 as stated: in the PKG format unpacked_size must equal data_size: the
\* PKG reader returns a Package only if every entry header has unpacked_size
\* = data_size, and the PKG writer emits unpacked_size = data_size and flags
\* = 0 for every entry.
C16_UnpackedSizeChecked ==
    /\ (PkgRead /\ loaded.result = "Ok")
          => \A i \in 1..entry_count_field : unpacked_size(i) = data_size(i)
    /\ WriterEmitsEqualSizes

\* the file b with the unpacked_size of each of its n entry headers replaced
\* by the header's data_size
WithUnpackedSizesEqual(b, n) ==
    [k \in 1..Len(b) |->
        IF k > 16 /\ k <= 16 + 20 * n /\ (k - 17) % 20 >= 16
        THEN b[k - 4]
        ELSE b[k]]

\* C16, amended: the PKG writer emits unpacked_size = data_size and flags = 0
\* for every entry; the PKG reader reads unpacked_size and does nothing with
\* it: what a read returns is what the read of the same file with every
\* unpacked_size set to the header's data_size returns.
C16_UnpackedSizeIgnored ==
    /\ HeadersReached
          => loaded = read_package_from_file(
                          WithUnpackedSizesEqual(output.bytes, entry_count_field))
    /\ WriterEmitsEqualSizes

\* a Package of two entries was returned by the read of a file in which an
\* unpacked_size is not the data_size
C16_Witness ==
    /\ HeadersReached
    /\ entry_count_field = 2
    /\ \E i \in 1..2 : unpacked_size(i) # data_size(i)
    /\ loaded.result = "Ok"
    /\ Len(loaded.entries) = 2


\* the field path_region_size of the file read, and where the region starts
path_region_size_field == read_u32_be(output.bytes, 12)
path_region_start == 16 + 20 * entry_count_field

\* the file read holds the headers and the path region it declares, and no
\* header is one of a deflated entry, so that the reader gets to the paths
PathsReached ==
    /\ HeadersReached
    /\ \A i \in 1..entry_count_field : flags(i) % 2 = 0
    /\ path_region_start + path_region_size_field <= Len(output.bytes)

\* the positions of the path region, from the i-th header's path_offset on,
\* that hold a zero byte
ZerosFrom(i) ==
    { z \in (path_offset(i) + 1)..path_region_size_field :
          output.bytes[path_region_start + z] = 0 }

\* the path of the i-th header ends within the path region
Terminated(i) == ZerosFrom(i) # {}

\* the path of the i-th header as the reader decodes it: the bytes from its
\* path_offset up to the first zero byte, each byte taken as one char
DecodedPath(i) ==
    LET z == CHOOSE z \in ZerosFrom(i) : \A y \in ZerosFrom(i) : z <= y
    IN  from_chars(SubSeq(output.bytes, path_region_start + path_offset(i) + 1,
                          path_region_start + z - 1))

\* the hash recomputed from the i-th decoded path is not the stored one
HashDiffers(i) ==
    Terminated(i) /\ calculate_path_hash(DecodedPath(i)) # path_hash(i)

\* nothing stops the reader at the i-th entry: its path ends, its hash is the
\* stored one, and no entry before it has its path
Accepted(i) ==
    /\ Terminated(i)
    /\ ~HashDiffers(i)
    /\ \A j \in 1..(i - 1) : Terminated(j) => DecodedPath(j) # DecodedPath(i)

\* C17: a PKG read fails with PathHashMismatchError, carrying the decoded
\* inner path, the stored hash and the recomputed hash, whenever the hash
\* recomputed from an entry's decoded path differs from the path_hash stored
\* in its header (the error is that of the first entry the reader stops at);
\* the reader never accepts an entry whose stored hash differs from
\* calculate_path_hash of its path.
C17_PathHashMismatch ==
    /\ PathsReached
          => \A i \in 1..entry_count_field :
                 /\ HashDiffers(i) => loaded.result = "Err" /\ loaded.entries = <<>>
                 /\ (HashDiffers(i) /\ \A j \in 1..(i - 1) : Accepted(j))
                       => PkgReadFailedWith(
                              PathHashMismatchError(DecodedPath(i), path_hash(i),
                                  calculate_path_hash(DecodedPath(i))))
    /\ (PkgRead /\ loaded.result = "Ok")
          => /\ PathsReached
             /\ Len(loaded.entries) = entry_count_field
             /\ \A i \in 1..entry_count_field :
                    /\ Terminated(i)
                    /\ loaded.entries[i].inner_path = DecodedPath(i)
                    /\ path_hash(i) = calculate_path_hash(loaded.entries[i].inner_path)

\* a file of two entries in which bytes of the second stored hash were
\* overwritten was read: the read failed with the hash mismatch of "b/c"
C17_Witness ==
    /\ PathsReached
    /\ entry_count_field = 2
    /\ damage.kind = "overwrite"
    /\ damage.pos \in 36..39
    /\ Accepted(1)
    /\ HashDiffers(2)
    /\ loaded.result = "Err"
    /\ loaded.error.kind = "PathHashMismatchError"
    /\ loaded.error.inner_path = <<98, 47, 99>>
    /\ loaded.error.expected = path_hash(2)
    /\ loaded.error.actual = calculate_path_hash(<<98, 47, 99>>)

\* a file in which a byte of a path was overwritten was read: the read failed
\* with a hash mismatch that names the path as decoded
DamagedPathRead ==
    /\ PathsReached
    /\ damage.kind = "overwrite"
    /\ damage.pos >= path_region_start
    /\ damage.pos < path_region_start + path_region_size_field
    /\ loaded.error.kind = "PathHashMismatchError"
    /\ loaded.error.inner_path = <<98, 1, 99>>
NoDamagedPathRead == ~DamagedPathRead


---------------------------------------------------------------------------
(* Claims about the layout of the files written *)

\* the file as the DAT writer left it
DatWritten == last.op = "into_output_dat" /\ output.result = "Ok" /\ damage = NoDamage

\* the length of the DAT records of the first k of the entries es
RECURSIVE RecordsLength(_, _)
RecordsLength(es, k) ==
    IF k = 0 THEN 0
    ELSE RecordsLength(es, k - 1) + 8 + Len(es[k].inner_path) + Len(Bytes(es[k]))

\* C19: DAT write layout: for a Package with entries e1..eN the output is the
\* little-endian u32 N, then N u32 offsets, then N records laid out one
\* after the other in Package order from byte 4 + 4N on, where record i is
\* (content_len, path_len, path bytes, content bytes) and offset i of the
\* table is the position where record i starts; the total length is
\* 4 + 4N + sum(8 + path_len_i + content_len_i), which is 27 bytes for the
\* single entry ("test", "test123").
C19_DatLayout ==
    DatWritten
    => LET b == output.bytes
           N == Len(entries)
       IN  /\ Len(b) = 4 + 4 * N + RecordsLength(entries, N)
           /\ read_u32_le(b, 0) = N
           /\ \A i \in 1..N :
                 LET start == 4 + 4 * N + RecordsLength(entries, i - 1)
                     path == entries[i].inner_path
                     bytes == Bytes(entries[i])
                 IN  /\ read_u32_le(b, 4 * i) = start
                     /\ read_u32_le(b, start) = Len(bytes)
                     /\ read_u32_le(b, start + 4) = Len(path)
                     /\ SubSeq(b, start + 9, start + 8 + Len(path)) = path
                     /\ SubSeq(b, start + 9 + Len(path),
                               start + 8 + Len(path) + Len(bytes)) = bytes
           /\ (N = 1 /\ entries[1].inner_path = <<116, 101, 115, 116>>
                     /\ Bytes(entries[1]) = <<116, 101, 115, 116, 49, 50, 51>>)
                 => Len(b) = 27

\* the Package holding ("test", "test123") was written as 27 bytes: the count
\* 1, the offset 8, the lengths 7 and 4, "test", "test123"
C19_Witness ==
    /\ DatWritten
    /\ output.bytes = <<1, 0, 0, 0, 8, 0, 0, 0, 7, 0, 0, 0, 4, 0, 0, 0,
                        116, 101, 115, 116, 116, 101, 115, 116, 49, 50, 51>>

\* a Package of three entries, one of them without content, was written
ThreeDatRecordsWritten ==
    /\ DatWritten
    /\ Len(entries) = 3
    /\ \E i \in 1..3 : Bytes(entries[i]) = <<>>
    /\ \E i \in 1..3 : Bytes(entries[i]) # <<>>
NoThreeDatRecordsWritten == ~ThreeDatRecordsWritten


\* the length of the null-terminated paths / of the contents of the first k
\* of the entries es
RECURSIVE PathsLength(_, _)
PathsLength(es, k) ==
    IF k = 0 THEN 0 ELSE PathsLength(es, k - 1) + Len(es[k].inner_path) + 1
RECURSIVE ContentsLength(_, _)
ContentsLength(es, k) ==
    IF k = 0 THEN 0 ELSE ContentsLength(es, k - 1) + Len(Bytes(es[k]))

\* where the data region of the file written starts: past the path region
\* and the 1 to 4 bytes that follow it
data_region_start ==
    LET paths_end == 16 + 20 * Len(entries) + PathsLength(entries, Len(entries))
    IN  paths_end + (4 - (PathsLength(entries, Len(entries)) % 4))

\* C20: PKG write layout: for entries e1..eN the output is the signature, 16,
\* 20, N, path_region_size = sum(len(path_i) + 1), then N headers of 20 bytes
\* in Package order, where header i has path_offset = the sum over j < i of
\* (len(path_j) + 1) and data_offset = data_region_start + the sum over j < i
\* of content_len_j, then the null-terminated paths, then at
\* data_region_start the contents in Package order; every header's
\* data_offset is the position at which that entry's content is written (for
\* a content that is not empty; the file ends with the last byte written),
\* and the total length is 51 bytes for the single entry ("test", "test123").
C20_PkgLayout ==
    PkgWritten
    => LET b == output.bytes
           N == Len(entries)
           paths_start == 16 + 20 * N
       IN  /\ SubSeq(b, 1, 4) = <<80, 75, 71, 10>>
           /\ header_size = 16
           /\ entry_header_size = 20
           /\ entry_count_field = N
           /\ path_region_size_field = PathsLength(entries, N)
           /\ data_region_start >= paths_start + PathsLength(entries, N)
           /\ Len(b) = IF ContentsLength(entries, N) = 0
                       THEN paths_start + PathsLength(entries, N)
                       ELSE data_region_start + ContentsLength(entries, N)
           /\ \A i \in 1..N :
                 LET path == entries[i].inner_path
                     bytes == Bytes(entries[i])
                     at == paths_start + path_offset(i)
                 IN  /\ path_offset(i) = PathsLength(entries, i - 1)
                     /\ data_offset(i) = data_region_start + ContentsLength(entries, i - 1)
                     /\ data_size(i) = Len(bytes)
                     /\ SubSeq(b, at + 1, at + Len(path)) = path
                     /\ b[at + Len(path) + 1] = 0
                     /\ bytes # <<>>
                           => SubSeq(b, data_offset(i) + 1, data_offset(i) + Len(bytes))
                                 = bytes
           /\ (N = 1 /\ entries[1].inner_path = <<116, 101, 115, 116>>
                     /\ Bytes(entries[1]) = <<116, 101, 115, 116, 49, 50, 51>>)
                 => Len(b) = 51

\* the Package holding ("test", "test123") was written as 51 bytes: the
\* header, one entry header with path_offset 0 and data_offset 44, "test\0",
\* three more zero bytes, "test123"
C20_Witness ==
    /\ PkgWritten
    /\ output.bytes = <<80, 75, 71, 10, 0, 16, 0, 20, 0, 0, 0, 1, 0, 0, 0, 5>>
                          \o calculate_path_hash(<<116, 101, 115, 116>>)
                          \o <<0, 0, 0, 0, 0, 0, 0, 44, 0, 0, 0, 7, 0, 0, 0, 7>>
                          \o <<116, 101, 115, 116, 0, 0, 0, 0>>
                          \o <<116, 101, 115, 116, 49, 50, 51>>
    /\ Len(output.bytes) = 51

\* a Package of three entries, the second one without content, was written
ThreePkgEntriesWritten ==
    /\ PkgWritten
    /\ Len(entries) = 3
    /\ Bytes(entries[1]) # <<>>
    /\ Bytes(entries[2]) = <<>>
    /\ Bytes(entries[3]) # <<>>
    /\ data_offset(3) = data_offset(2)
NoThreePkgEntriesWritten == ~ThreePkgEntriesWritten


\* the number of bytes between the end of the path region and the content of
\* the first entry, as the first entry header of the file written tells it
padding == data_offset(1) - (16 + 20 * entry_count_field + path_region_size_field)

\* C21: in PKG output the data region starts at the next 4-byte boundary
\* after the path region: data_region_start = 16 + 20 * entry_count +
\* path_region_size + padding, where data_region_start is a multiple of 4 and
\* padding is the least number of bytes that reaches that alignment: at
\* most 3, for every path_region_size, the multiples of 4 among them.
C21_DataRegionAlignment ==
    (PkgWritten /\ entries # <<>>)
    => /\ data_offset(1) % 4 = 0
       /\ padding \in 0..3
       /\ \A less \in 0..(padding - 1) :
             (16 + 20 * entry_count_field + path_region_size_field + less) % 4 # 0

\* What the writer does: the data region starts at a multiple of 4, 1 to 4
\* bytes past the path region: 4 - (path_region_size % 4) of them, which is
\* 4 bytes, not 0, when the path region ends at a multiple of 4.
PaddingIsOneToFour ==
    (PkgWritten /\ entries # <<>>)
    => /\ data_offset(1) % 4 = 0
       /\ padding = 4 - (path_region_size_field % 4)
       /\ padding \in 1..4

\* a file whose path region ends at a multiple of 4 was written: the one of
\* the Package holding "b/c" alone
AlignedPathRegionWritten ==
    /\ PkgWritten
    /\ Len(entries) = 1
    /\ path_region_size_field = 4
    /\ padding = 4
NoAlignedPathRegionWritten == ~AlignedPathRegionWritten


---------------------------------------------------------------------------
(* Claims about sizes that do not fit the fields of the formats *)

\* the Package last written by sizes, the build it was written by, and what
\* the two writers gave
sized == last.inner_path
checked_build == last.content
pkg_written == last.result.pkg
dat_written == last.result.dat

\* the length of the null-terminated paths / of the contents / of the DAT
\* records of the first k entries of the Package written
RECURSIVE PathsSize(_)
PathsSize(k) ==
    IF k = 0 THEN Wide(0, 0)
    ELSE WAdd(PathsSize(k - 1), WAdd(sized.sizes[k].path_len, Wide(0, 1)))
RECURSIVE ContentsSize(_)
ContentsSize(k) ==
    IF k = 0 THEN Wide(0, 0) ELSE WAdd(ContentsSize(k - 1), sized.sizes[k].content_len)
RECURSIVE RecordsSize(_)
RecordsSize(k) ==
    IF k = 0 THEN Wide(0, 0)
    ELSE WAdd(WAdd(RecordsSize(k - 1), Wide(0, 8)),
              WAdd(sized.sizes[k].path_len, sized.sizes[k].content_len))

\* a size of 2^32 bytes or more
Over32Bits(size) == size.hi >= 256

\* the entry count, or the paths, of the Package written exceed 32 bits
TooManyEntries == last.op = "write_sizes" /\ Over32Bits(sized.count)
PathsTooLong ==
    /\ last.op = "write_sizes"
    /\ ~Over32Bits(sized.count)
    /\ Over32Bits(PathsSize(Len(sized.sizes)))

\* C22: a PKG write fails with EntryCountExceededError when the Package has
\* more entries than fit a 32-bit count, and with PathAreaSizeExceededError
\* (carrying the size) when the concatenated null-terminated paths exceed a
\* 32-bit size; in both cases the write returns the error and emits no
\* truncated count or size field.
C22_CapacityErrors ==
    /\ TooManyEntries
          => /\ pkg_written.result = "Err"
             /\ pkg_written.error = "EntryCountExceededError"
             /\ pkg_written.entry_count = <<>>
    /\ PathsTooLong
          => /\ pkg_written.result = "Err"
             /\ pkg_written.error = "PathAreaSizeExceededError"
             /\ pkg_written.size = PathsSize(Len(sized.sizes))
             /\ pkg_written.path_region_size = <<>>

\* The same of a build without overflow checks, and of Packages whose
\* contents are below 2^32 bytes in all.
CapacityErrorsWithoutOverflow ==
    (last.op = "write_sizes"
        /\ (~checked_build \/ ~Over32Bits(ContentsSize(Len(sized.sizes)))))
    => C22_CapacityErrors

\* With overflow checks, paths of 2^32 bytes or more and contents of 2^32
\* bytes or more that are not cut to less by `as u32`, the write panics.
NoTruncatedSizeField ==
    PathsTooLong
    => /\ pkg_written.path_region_size = <<>>
       /\ pkg_written.result \in {"Err", "panic"}
       /\ pkg_written.result = "panic" => checked_build

\* writes of too many entries / of paths too long that gave the error / that
\* panicked
EntryCountExceeded == TooManyEntries /\ pkg_written.error = "EntryCountExceededError"
PathAreaSizeExceeded == PathsTooLong /\ pkg_written.error = "PathAreaSizeExceededError"
PathsTooLongPanicked == PathsTooLong /\ pkg_written.result = "panic"
NoEntryCountExceeded == ~EntryCountExceeded
NoPathAreaSizeExceeded == ~PathAreaSizeExceeded
NoPathsTooLongPanicked == ~PathsTooLongPanicked


\* where the data region of the PKG file of the Package written starts
DataRegionStart ==
    LET paths == PathsSize(Len(sized.sizes))
    IN  WAdd(WAdd(Wide(0, 16 + 20 * Len(sized.sizes)), paths), Wide(0, 4 - (paths.lo % 4)))

\* every value of the PKG file of the Package written fits its field: the
\* path offsets 24 bits, the count, the data offsets and the sizes 32 bits
FitsPkg ==
    /\ ~Over32Bits(sized.count)
    /\ ~Over32Bits(PathsSize(Len(sized.sizes)))
    /\ \A i \in 1..Len(sized.sizes) :
          /\ PathsSize(i - 1).hi = 0
          /\ ~Over32Bits(WAdd(DataRegionStart, ContentsSize(i - 1)))
          /\ ~Over32Bits(sized.sizes[i].content_len)

\* the fields of the PKG file written hold the values of the Package
ExactPkg ==
    /\ pkg_written.entry_count = <<sized.count>>
    /\ pkg_written.path_region_size = <<PathsSize(Len(sized.sizes))>>
    /\ Len(pkg_written.headers) = Len(sized.sizes)
    /\ \A i \in 1..Len(sized.sizes) :
          /\ pkg_written.headers[i].inner_path_offset = PathsSize(i - 1)
          /\ pkg_written.headers[i].data_offset = WAdd(DataRegionStart, ContentsSize(i - 1))
          /\ pkg_written.headers[i].data_size = sized.sizes[i].content_len
          /\ pkg_written.headers[i].unpacked_data_size = sized.sizes[i].content_len

\* the same of the DAT file: count, offsets and lengths, 32 bits each
FitsDat ==
    /\ ~Over32Bits(sized.count)
    /\ \A i \in 1..Len(sized.sizes) :
          /\ ~Over32Bits(WAdd(Wide(0, 4 + 4 * Len(sized.sizes)), RecordsSize(i - 1)))
          /\ ~Over32Bits(sized.sizes[i].content_len)
          /\ ~Over32Bits(sized.sizes[i].path_len)
ExactDat ==
    /\ dat_written.entry_count = sized.count
    /\ Len(dat_written.records) = Len(sized.sizes)
    /\ \A i \in 1..Len(sized.sizes) :
          /\ dat_written.records[i].offset
                = WAdd(Wide(0, 4 + 4 * Len(sized.sizes)), RecordsSize(i - 1))
          /\ dat_written.records[i].content_len = sized.sizes[i].content_len
          /\ dat_written.records[i].path_len = sized.sizes[i].path_len

\* C30: no writer emits a wrapped or truncated numeric field: whenever a DAT
\* or PKG write returns Ok, every length, count and offset field of the
\* output holds the exact value; when a value does not fit its field the
\* write returns an error: it neither wraps the value nor aborts.
C30_NoWrappedField ==
    last.op = "write_sizes"
    => /\ pkg_written.result = "Ok" => ExactPkg
       /\ ~FitsPkg => pkg_written.result = "Err"
       /\ dat_written.result = "Ok" => ExactDat
       /\ (~FitsDat /\ dat_written.result # "None") => dat_written.result = "Err"

\* Values that fit their fields are written as they are by both writers; the
\* PKG writer of a build with overflow checks needs the contents to be below
\* 2^32 bytes in all as well (it adds up the length of the last content too).
FittingValuesAreExact ==
    last.op = "write_sizes"
    => /\ (FitsPkg /\ (~checked_build \/ ~Over32Bits(ContentsSize(Len(sized.sizes)))))
             => pkg_written.result = "Ok" /\ ExactPkg
       /\ (FitsDat /\ dat_written.result # "None")
             => dat_written.result = "Ok" /\ ExactDat

\* What the writers do with a value that does not fit: the DAT writer cuts
\* it to 32 bits and returns Ok; the PKG writer returns an error for the
\* count and the paths only, panics on a path offset of 2^24 or more and, with
\* overflow checks, on a data offset of 2^32 or more; otherwise it returns Ok
\* with a field that does not hold the value.
UnfitValuesAreCut ==
    last.op = "write_sizes"
    => /\ (~FitsDat /\ dat_written.result # "None")
             => dat_written.result = "Ok" /\ ~ExactDat
       /\ (~FitsPkg /\ pkg_written.result = "Ok") => ~ExactPkg
       /\ (~FitsPkg /\ pkg_written.result = "Err") => (TooManyEntries \/ PathsTooLong)
       /\ (pkg_written.result = "panic" /\ ~checked_build)
             => \E i \in 1..Len(sized.sizes) : PathsSize(i - 1).hi # 0

\* PKG writes that returned Ok with a field cut, and that panicked on a path
\* offset, by a build without overflow checks
PkgFieldCut ==
    last.op = "write_sizes" /\ ~FitsPkg /\ pkg_written.result = "Ok" /\ ~checked_build
PathOffsetPanicked ==
    last.op = "write_sizes" /\ pkg_written.result = "panic" /\ ~checked_build
NoPkgFieldCut == ~PkgFieldCut
NoPathOffsetPanicked == ~PathOffsetPanicked


---------------------------------------------------------------------------
(* Claims about the content of entries *)

\* a read returned a Package
ReadOk == loaded # NotLoaded /\ loaded.result = "Ok"

\* every entry of the Package read back gives its content: as many bytes as
\* its data_size says, by content() and by content_by_path() alike
LoadedContentsReadable ==
    \A i \in 1..Len(loaded.entries) :
        LET c == content(loaded.entries[i], output.bytes)
        IN  /\ c.result = "Ok"
            /\ Len(c.bytes) = loaded.entries[i].source.length
            /\ (\A j \in 1..Len(loaded.entries) :
                    loaded.entries[j].inner_path = loaded.entries[i].inner_path => j = i)
                  => content_by_path(loadedPackage, loaded.entries[i].inner_path,
                                     output.bytes) = Some(c.bytes)

\* some entry header of the PKG file read declares data that reach past the
\* end of the file
DataPastEnd ==
    /\ HeadersReached
    /\ \E i \in 1..entry_count_field : data_offset(i) + data_size(i) > Len(output.bytes)

\* C27: requesting content can fail only for a FileOnDisk source: for every
\* Entry with an InMemory source, and for every memory-mapped Entry of a
\* Package returned by a successful DAT or PKG read, content() and
\* content_by_path() succeed and return exactly data_size bytes; a PKG file
\* whose header declares a data range reaching past the end of the file is
\* rejected by the read itself and does not fail later, when content is
\* requested.
C27_ContentNeverFails ==
    /\ \A i \in 1..Len(entries) :
          content(entries[i], <<>>) = [result |-> "Ok", bytes |-> entries[i].source.bytes]
    /\ ReadOk => LoadedContentsReadable
    /\ (PkgRead /\ DataPastEnd) => PkgReadFailedWith(loaded.error) /\ loaded.error # NoError

\* The part that holds: entries built in memory, and the entries of a
\* Package returned by a DAT read, always give their content.
InMemoryAndDatContents ==
    /\ \A i \in 1..Len(entries) :
          content(entries[i], <<>>) = [result |-> "Ok", bytes |-> entries[i].source.bytes]
    /\ (ReadOk /\ DatRead) => LoadedContentsReadable

\* The PKG reader does not look at the data ranges: of a Package it returns,
\* the entries whose range lies within the file give their content and the
\* others panic.
PkgContentsByRange ==
    (ReadOk /\ PkgRead)
    => \A i \in 1..Len(loaded.entries) :
           content(loaded.entries[i], output.bytes).result
              = IF data_offset(i) + data_size(i) <= Len(output.bytes) THEN "Ok" ELSE "panic"

\* a PKG file with overwritten bytes in a data_offset or data_size, declaring
\* data past its end, was read and a Package returned
DataPastEndAccepted ==
    ReadOk /\ PkgRead /\ DataPastEnd /\ damage.kind = "overwrite"
NoDataPastEndAccepted == ~DataPastEndAccepted


---------------------------------------------------------------------------
(* Claims about the order of the entries read *)

\* the file read had its table put in another order: entry number k of the
\* table is entry number damage.bytes[k] of the Package written
TableReordered == loaded # NotLoaded /\ damage.kind = "reorder"

\* the Package read has as many entries as the Package written, and its
\* entry number k has the path of the entry that the table names k-th, and
\* its content when there is some
InTableOrder ==
    /\ Len(loaded.entries) = Len(entries)
    /\ \A k \in 1..Len(entries) :
          LET written == entries[damage.bytes[k]]
          IN  /\ loaded.entries[k].inner_path = written.inner_path
              /\ loaded.index[written.inner_path] = k - 1
              /\ Bytes(written) # <<>>
                    => content(loaded.entries[k], output.bytes)
                          = [result |-> "Ok", bytes |-> Bytes(written)]

\* C28: the order of the entries of a Package produced by a read is the order
\* of the file's table, not the order of the data: the DAT reader yields the
\* entries in the order of the offset table even when the offsets are not
\* increasing, and the PKG reader yields them in the order of the entry
\* headers even when the path_offsets or the data_offsets are not increasing.
C28_TableOrder ==
    /\ (TableReordered /\ last.op = "into_output_dat")
          => loaded.result = "Ok" /\ InTableOrder
    /\ (TableReordered /\ last.op = "into_output_pkg" /\ AsciiPaths)
          => loaded.result = "Ok" /\ InTableOrder
    /\ (TableReordered /\ last.op = "into_output_pkg" /\ loaded.result = "Ok")
          => InTableOrder

\* a DAT file of three entries whose table names the last record first was
\* read: the offsets of the table read are not increasing
C28_Witness ==
    /\ TableReordered
    /\ last.op = "into_output_dat"
    /\ damage.bytes = <<3, 1, 2>>
    /\ read_u32_le(output.bytes, 4) > read_u32_le(output.bytes, 8)
    /\ loaded.result = "Ok"
    /\ inner_paths(loadedPackage)
          = <<entries[3].inner_path, entries[1].inner_path, entries[2].inner_path>>

\* a PKG file of three entries whose headers are in another order was read:
\* neither the path_offsets nor the data_offsets are increasing
PkgHeadersReorderedRead ==
    /\ TableReordered
    /\ last.op = "into_output_pkg"
    /\ Len(entries) = 3
    /\ path_offset(1) > path_offset(2)
    /\ data_offset(1) > data_offset(2)
    /\ loaded.result = "Ok"
    /\ InTableOrder
NoPkgHeadersReorderedRead == ~PkgHeadersReorderedRead


---------------------------------------------------------------------------
(* Claims about what the output of the writers depends on *)

\* the contents of the entries of pkg can all be had
Readable(pkg, mmap) ==
    \A i \in 1..Len(pkg.entries) : content(pkg.entries[i], mmap).result = "Ok"

\* the paths and contents of the entries of pkg, in the order of iteration
Pairs(pkg, mmap) ==
    [i \in 1..Len(pkg.entries) |->
        <<pkg.entries[i].inner_path, content(pkg.entries[i], mmap).bytes>>]

\* a Package that has nothing but the pairs: its entries hold their contents
\* in memory and its index is empty
OfPairs(pairs) ==
    [entries |-> [i \in 1..Len(pairs) |-> from_byte_array(pairs[i][1], pairs[i][2])],
     index |-> EmptyMap]

\* the output of writer for pkg is the output for its pairs alone
OnlyPairsMatter(writer(_, _), pkg, mmap) ==
    /\ last.result = "Ok"
    /\ last.content = writer(OfPairs(Pairs(pkg, mmap)), <<>>).bytes

\* C29: the output of the writers depends only on the ordered sequence of
\* (inner_path, content) pairs of the Package: two Packages whose iterated
\* entries have the same paths in the same order with the same contents give
\* the same DAT bytes and the same PKG bytes, whatever history of add_entry,
\* put_entry, remove_entry, clear or read produced them; and to_output leaves
\* the Package unchanged, so that writing it twice gives the same bytes.
C29_OutputOfPairsOnly ==
    /\ last.op = "to_output_dat"
          => /\ OnlyPairsMatter(write_package_to_output, package, <<>>)
             /\ package = before
    /\ last.op = "to_output_pkg"
          => /\ OnlyPairsMatter(pkg_write_package_to_output, package, <<>>)
             /\ package = before
    /\ (last.op = "loaded_to_output_dat" /\ Readable(loadedPackage, output.bytes))
          => /\ OnlyPairsMatter(write_package_to_output, loadedPackage, output.bytes)
             /\ Pairs(loadedPackage, output.bytes) = Pairs(package, <<>>)
                   => last.content = write_package_to_output(package, <<>>).bytes
    /\ (last.op = "loaded_to_output_pkg" /\ Readable(loadedPackage, output.bytes))
          => /\ OnlyPairsMatter(pkg_write_package_to_output, loadedPackage, output.bytes)
             /\ Pairs(loadedPackage, output.bytes) = Pairs(package, <<>>)
                   => last.content = pkg_write_package_to_output(package, <<>>).bytes

\* a Package that was read from a DAT file is written as PKG, and its pairs
\* are those of the Package that remove_entry left with a path in its index
\* that none of its entries has
C29_Witness ==
    /\ last.op = "loaded_to_output_pkg"
    /\ last.result = "Ok"
    /\ Len(loaded.entries) >= 2
    /\ Pairs(loadedPackage, output.bytes) = Pairs(package, <<>>)
    /\ loaded.index # inner_path_to_entry_index
    /\ last.content = pkg_write_package_to_output(package, <<>>).bytes

\* to_output_dat has written a Package of two entries whose index names three
\* paths, and the Package is as it was
BorrowedWithStaleIndex ==
    /\ last.op = "to_output_dat"
    /\ Len(entries) = 2
    /\ Cardinality(DOMAIN inner_path_to_entry_index) = 3
    /\ package = before
NoBorrowedWithStaleIndex == ~BorrowedWithStaleIndex


---------------------------------------------------------------------------
(* Claims about writing to a path *)

\* a call on a path has returned, and the operating system failed nothing
Returned(op) == pc.at = "done" /\ pc.op = op /\ pc.fault = "none"

\* the destination holds the archive of the Package
HoldsArchive ==
    /\ pc.destination \in DOMAIN fs
    /\ fs[pc.destination] = Archive(pc.format, package).bytes

\* C24: writing a Package to a destination path creates the file if it is
\* absent and replaces it if it is present, for to_path and for into_path
\* alike: each returns Ok and leaves a file holding the archive, whether or
\* not the destination existed before the call.
C24_CreatesOrReplaces ==
    /\ Returned("to_path") => pc.result = "Ok" /\ HoldsArchive
    /\ Returned("into_path") => pc.result = "Ok" /\ HoldsArchive

\* to_path alone does what C24 says
ToPathCreatesOrReplaces ==
    Returned("to_path") => pc.result = "Ok" /\ HoldsArchive

\* into_path does it for the destinations that exist and whose extension is
\* not tmp, and leaves no other file behind
IntoPathReplaces ==
    (/\ Returned("into_path")
     /\ pc.destination \in DOMAIN pc.found
     /\ pc.destination.extension # "tmp")
        => /\ pc.result = "Ok"
           /\ HoldsArchive
           /\ with_extension(pc.destination, "tmp") \notin DOMAIN fs

\* into_path fails for every destination that does not exist, and leaves the
\* archive in the file next to it
IntoPathOfAbsentFails ==
    (Returned("into_path") /\ pc.destination \notin DOMAIN pc.found)
        => /\ pc.result = "Err"
           /\ pc.destination \notin DOMAIN fs
           /\ pc.destination.extension # "tmp"
                 => /\ with_extension(pc.destination, "tmp") \in DOMAIN fs
                    /\ fs[with_extension(pc.destination, "tmp")]
                          = Archive(pc.format, package).bytes

\* into_path fails for every destination whose extension is tmp, and the
\* destination is gone
IntoPathOfTmpFails ==
    (Returned("into_path") /\ pc.destination.extension = "tmp")
        => pc.result = "Err" /\ pc.destination \notin DOMAIN fs

\* to_path has created a file that was absent; it has replaced one that was
\* present
ToPathCreated ==
    /\ Returned("to_path")
    /\ pc.destination \notin DOMAIN pc.found
    /\ HoldsArchive
    /\ Len(entries) = 2
NoToPathCreated == ~ToPathCreated
ToPathReplaced ==
    /\ Returned("to_path")
    /\ pc.destination \in DOMAIN pc.found
    /\ HoldsArchive
    /\ fs[pc.destination] # OldBytes
NoToPathReplaced == ~ToPathReplaced

\* into_path has replaced a file; it has failed on a destination that was
\* absent; it has removed a destination whose extension is tmp
IntoPathReplaced ==
    /\ Returned("into_path")
    /\ pc.result = "Ok"
    /\ HoldsArchive
    /\ pc.found[pc.destination] = OldBytes
NoIntoPathReplaced == ~IntoPathReplaced
IntoPathOfAbsentFailed ==
    /\ Returned("into_path")
    /\ pc.destination = PathBuf("out", "dat")
    /\ pc.destination \notin DOMAIN pc.found
    /\ pc.result = "Err"
NoIntoPathOfAbsentFailed == ~IntoPathOfAbsentFailed
IntoPathOfTmpFailed ==
    /\ Returned("into_path")
    /\ pc.destination = PathBuf("out", "tmp")
    /\ pc.destination \in DOMAIN pc.found
    /\ pc.destination \notin DOMAIN fs
NoIntoPathOfTmpFailed == ~IntoPathOfTmpFailed


\* the file at path is not the same in the files f and g: it is in one and
\* not in the other, or it holds other bytes
Touched(f, g, path) ==
    \/ (path \in DOMAIN f) # (path \in DOMAIN g)
    \/ path \in DOMAIN f /\ path \in DOMAIN g /\ f[path] # g[path]

\* the file next to the destination holds the whole archive
TemporaryFileComplete ==
    /\ with_extension(pc.destination, "tmp") \in DOMAIN fs
    /\ fs[with_extension(pc.destination, "tmp")] = Archive(pc.format, package).bytes

\* into_path is past its write, and the write of the temporary file failed:
\* the writer returned an error, or the last flush lost bytes
WriteFailed ==
    /\ pc.op = "into_path"
    /\ pc.at \in {"written", "removed", "done"}
    /\ \/ pc.fault = "write"
       \/ /\ pc.fault = "drop"
          /\ LostOnDrop(pc.format, Archive(pc.format, package).bytes)
                # Archive(pc.format, package).bytes

\* a step of into_path that removes or replaces the destination is made
\* after the write has finished with the whole archive in the temporary file
\* and the Package has been dropped
TouchedAfterWriteAndDrop ==
    (pc'.op = "into_path" /\ Touched(fs, fs', pc'.destination))
        => /\ pc.at \in {"written", "removed"}
           /\ pc.dropped
           /\ TemporaryFileComplete

\* when the write has failed the destination is as the call found it
UntouchedWhenWriteFailed ==
    WriteFailed => ~Touched(pc.found, fs, pc.destination)

\* C23: the overwrite protocol of Package::into_path: the archive is first
\* written completely to a temporary file in the destination's directory; the
\* destination is removed or replaced only after that write has finished
\* successfully and the Package has been dropped; if writing the temporary
\* file fails, the destination is left untouched.
C23_OverwriteProtocol ==
    /\ [][TouchedAfterWriteAndDrop]_vars
    /\ [](UntouchedWhenWriteFailed)

\* the protocol is kept for the destinations whose extension is not tmp
\* during the calls whose last flush does not fail
ProtocolOfOtherExtensions ==
    /\ [][(pc'.destination.extension # "tmp" /\ pc'.fault # "drop")
             => TouchedAfterWriteAndDrop]_vars
    /\ []((pc.at # "idle" /\ pc.destination.extension # "tmp" /\ pc.fault # "drop")
             => UntouchedWhenWriteFailed)

\* for those destinations the destination is removed only once the writer has
\* returned Ok and the Package has been dropped, whatever the flush did
RemovedAfterDrop ==
    (/\ pc.op = "into_path"
     /\ pc.destination.extension # "tmp"
     /\ Touched(pc.found, fs, pc.destination))
        => pc.at \in {"removed", "done"} /\ pc.dropped /\ pc.result # "panic"

\* a destination whose extension is tmp was emptied by the opening of the
\* temporary file, before anything was written and with the Package alive
DestinationOpenedAsTemporary ==
    /\ pc.op = "into_path"
    /\ pc.at = "opened"
    /\ ~pc.dropped
    /\ pc.destination \in DOMAIN pc.found
    /\ pc.found[pc.destination] = OldBytes
    /\ fs[pc.destination] = <<>>
NoDestinationOpenedAsTemporary == ~DestinationOpenedAsTemporary

\* the last flush failed, into_path returned Ok, and the destination holds
\* an archive without its offsets
ReplacedByIncompleteFile ==
    /\ pc.op = "into_path"
    /\ pc.at = "done"
    /\ pc.result = "Ok"
    /\ pc.fault = "drop"
    /\ pc.destination = PathBuf("out", "dat")
    /\ pc.destination \in DOMAIN pc.found
    /\ pc.found[pc.destination] = OldBytes
    /\ fs[pc.destination] # Archive(pc.format, package).bytes
NoReplacedByIncompleteFile == ~ReplacedByIncompleteFile

\* the writer returned an error and the destination is as it was
FailedWriteLeftDestination ==
    /\ WriteFailed
    /\ pc.fault = "write"
    /\ pc.result = "Err"
    /\ pc.destination = PathBuf("out", "dat")
    /\ pc.destination \in DOMAIN pc.found
    /\ pc.found[pc.destination] = OldBytes
    /\ fs[pc.destination] = OldBytes
NoFailedWriteLeftDestination == ~FailedWriteLeftDestination


---------------------------------------------------------------------------
(* Claims about extract *)

\* extract has returned
Extracted == pc.at = "done" /\ pc.op = "extract"

\* the files under the destination that are not directories
Files == { path \in DOMAIN fs : fs[path] # Directory }

\* the file of entry number i is there, under directories, with its content
FileOf(i) ==
    /\ entries[i].inner_path \in Files
    /\ fs[entries[i].inner_path] = Bytes(entries[i])
    /\ parent(entries[i].inner_path) \in DOMAIN fs
    /\ fs[parent(entries[i].inner_path)] = Directory

\* on success there is exactly one file per entry, with the entry's content
OneFilePerEntry ==
    (Extracted /\ pc.result = "Ok")
        => /\ \A i \in 1..Len(entries) : FileOf(i)
           /\ Cardinality(Files) = Len(entries)

\* the first error is returned at once: the entries before the failing one
\* have their files, and the entries after it were not processed
FailFast ==
    (Extracted /\ pc.fault.call \in {"create_dir_all", "open", "write"})
        => /\ pc.result = "Err"
           /\ \A i \in 1..(pc.fault.entry - 1) : FileOf(i)
           /\ \A i \in (pc.fault.entry + 1)..Len(entries) :
                 (\A j \in 1..pc.fault.entry :
                      entries[j].inner_path # entries[i].inner_path)
                    => entries[i].inner_path \notin DOMAIN fs

\* C26: extract processes the entries in Package order, writing the content
\* of each to the file of its inner_path under the destination after creating
\* its parent directories; on success exactly one file per entry exists, with
\* matching content; on the first I/O error it returns that error at once,
\* processes no later entry, and leaves the files of the earlier entries.
C26_Extract == OneFilePerEntry /\ FailFast

DistinctPaths ==
    \A i, j \in 1..Len(entries) : entries[i].inner_path = entries[j].inner_path => i = j

\* C26 holds of the Packages whose paths are distinct when every write takes
\* all the bytes it is given
ExtractOfDistinctPaths ==
    (Extracted /\ DistinctPaths /\ pc.fault.call # "short") => C26_Extract

\* the Package has two entries of one path, which remove_entry and put_entry
\* made, and extract returned Ok with one file for the two
TwoEntriesOneFile ==
    /\ Extracted
    /\ pc.result = "Ok"
    /\ pc.fault = NoFault
    /\ Len(entries) = 2
    /\ entries[1].inner_path = entries[2].inner_path
    /\ Cardinality(Files) = 1
NoTwoEntriesOneFile == ~TwoEntriesOneFile

\* a write took less than the content, and extract returned Ok with a file
\* that does not hold the content
ShortWriteReturnedOk ==
    /\ Extracted
    /\ pc.result = "Ok"
    /\ pc.fault.call = "short"
    /\ DistinctPaths
    /\ \E i \in 1..Len(entries) : fs[entries[i].inner_path] # Bytes(entries[i])
NoShortWriteReturnedOk == ~ShortWriteReturnedOk

\* three entries were extracted to three files; the second of three failed
\* and the first has its file
ThreeFilesExtracted ==
    /\ Extracted
    /\ pc.result = "Ok"
    /\ Cardinality(Files) = 3
    /\ \A i \in 1..3 : FileOf(i)
NoThreeFilesExtracted == ~ThreeFilesExtracted
SecondOfThreeFailed ==
    /\ Extracted
    /\ pc.result = "Err"
    /\ pc.fault.entry = 2
    /\ Len(entries) = 3
    /\ DistinctPaths
    /\ FileOf(1)
    /\ entries[3].inner_path \notin DOMAIN fs
NoSecondOfThreeFailed == ~SecondOfThreeFailed


---------------------------------------------------------------------------
(* Claims about the map of the file read *)

\* the entries alive that take their content from the map
LiveMappedEntries == { i \in 1..Len(entries) : IsMapped(entries[i]) }

\* the map is mapped: Rc drops the Mmap, which unmaps the file, when the
\* count of its references reaches zero
Mapped == strong_count > 0

\* C25: the map made by a DAT or PKG read stays mapped as long as at least
\* one entry sourced from it is alive, and is released exactly when the last
\* such entry is dropped, by remove_entry, by replacement through put_entry,
\* by clear or by dropping the Package; the number of strong references to
\* the map always equals the number of live entries sourced from it.
C25_MapLivesWithEntries ==
    /\ strong_count = Cardinality(LiveMappedEntries)
    /\ Mapped <=> LiveMappedEntries # {}

\* a step that drops the last entry sourced from the map releases it, and no
\* other step does
ReleasedWithLastEntry ==
    [][(Mapped /\ ~Mapped')
          <=> (LiveMappedEntries # {} /\ LiveMappedEntries' = {})]_vars

\* put_entry has replaced one of three entries of the map by an entry held
\* in memory: two references are left
C25_Witness ==
    /\ last.op = "put_entry"
    /\ last.result = "Ok"
    /\ Len(last.pre_entries) = 3
    /\ \A i \in 1..3 : IsMapped(last.pre_entries[i])
    /\ Len(entries) = 3
    /\ Cardinality(LiveMappedEntries) = 2
    /\ strong_count = 2

\* remove_entry has dropped the last entry of the map, with an entry held in
\* memory still in the Package: the map is released
LastMappedEntryRemoved ==
    /\ last.op = "remove_entry"
    /\ last.result = "true"
    /\ \E i \in 1..Len(last.pre_entries) : IsMapped(last.pre_entries[i])
    /\ entries # <<>>
    /\ ~Mapped
NoLastMappedEntryRemoved == ~LastMappedEntryRemoved

\* the Package was dropped with three entries of the map in it
DroppedWithThree ==
    /\ last.op = "drop"
    /\ Len(last.pre_entries) = 3
    /\ \A i \in 1..3 : IsMapped(last.pre_entries[i])
    /\ ~Mapped
NoDroppedWithThree == ~DroppedWithThree


===========================================================================
